---- MODULE Spec2Model ----
(***************************************************************************)
(* Paper-Protector firmware: the serial publish/subscribe bus             *)
(* (SerialPubSub) with the IR LED handlers of MoistureSensor registered   *)
(* on it.  Bytes are one-character strings, C strings are sequences of    *)
(* bytes (without the terminating NUL), a null char pointer is NULLSTR.    *)
(***************************************************************************)
EXTENDS Integers, Sequences, FiniteSets, TLC

\* ------------------------------------------------------------ constants

MAX_SUBSCRIPTIONS == 16
MAX_TOPIC_LENGTH == 24
MAX_MESSAGE_LENGTH == 64

\* Number of API calls and host transmissions explored in one behaviour.
MaxEvents == 3

\* MoistureSensor.h
MIN_MEASUREMENT_INTERVAL == 500
MAX_RETRIES == 3
RETRY_DELAY_MS == 50
SATURATION_THRESHOLD == 65000

\* as7341_gain_t, lowest gain first
AS7341_GAIN_0_5X == 0
AS7341_GAIN_1X == 1
AS7341_GAIN_2X == 2
AS7341_GAIN_4X == 3
AS7341_GAIN_8X == 4
AS7341_GAIN_16X == 5
AS7341_GAIN_32X == 6
AS7341_GAIN_64X == 7
AS7341_GAIN_128X == 8
AS7341_GAIN_256X == 9
AS7341_GAIN_512X == 10

\* MoistureSensor::calculateMoisture
DEFAULT_DRY_BASELINE == 1500
DEFAULT_WET_BASELINE == 300

\* limits of long (32 bits)
LONG_MAX == 2147483647
LONG_MIN == -2147483647 - 1

\* StepperMotor::StepperMotor: the default steps per revolution and step delay
DEFAULT_STEPS_PER_REVOLUTION == 200
DEFAULT_STEP_DELAY_MICROS == 1000

\* _sensor.readAllChannels returned false
FAIL == -1

LF == "\n"
CR == "\r"
COLON == ":"

\* A null char pointer: no C string equals it (its element is not a byte).
NULLSTR == <<"nullptr">>
\* A null callback pointer.
NULLCB == "nullptr"

Slots == 0 .. (MAX_SUBSCRIPTIONS - 1)

\* ------------------------------------------------------------ C strings

\* n copies of byte c
Rep(c, n) == [i \in 1 .. n |-> c]

\* strlen
strlen(s) == Len(s)

\* faulty variant: the last occurrence is found (strrchr)
strchrLast(s, c) ==
    LET hits == {i \in 1 .. Len(s) : s[i] = c}
    IN  IF hits = {} THEN -1
        ELSE (CHOOSE i \in hits : \A j \in hits : j <= i) - 1

\* strchr(s, c): index (0-based) of the first c in s, or -1 when absent
strchr(s, c) ==
    LET hits == {i \in 1 .. Len(s) : s[i] = c}
    IN  IF hits = {} THEN -1
        ELSE (CHOOSE i \in hits : \A j \in hits : i <= j) - 1

\* the string that starts n bytes into s (the pointer s + n)
Skip(s, n) == SubSeq(s, n + 1, Len(s))

\* strstr(s, sub): index (0-based) of the first occurrence of sub in s, or -1
strstrAt(s, sub) ==
    LET hits == {i \in 1 .. (Len(s) - Len(sub) + 1) : SubSeq(s, i, i + Len(sub) - 1) = sub}
    IN  IF hits = {} THEN -1
        ELSE (CHOOSE i \in hits : \A j \in hits : i <= j) - 1

\* isspace, isdigit
IsSpace(c) == c \in {" ", "\t", "\n", "\r", "\f"}
IsDigit(c) == c \in {"0", "1", "2", "3", "4", "5", "6", "7", "8", "9"}
DigitValue(c) ==
    CASE c = "0" -> 0 [] c = "1" -> 1 [] c = "2" -> 2 [] c = "3" -> 3 [] c = "4" -> 4
      [] c = "5" -> 5 [] c = "6" -> 6 [] c = "7" -> 7 [] c = "8" -> 8 [] c = "9" -> 9

\* the value of the leading decimal digits of s, acc being the value so far
RECURSIVE ParseDigits(_, _)
ParseDigits(s, acc) ==
    IF s = <<>> \/ ~IsDigit(Head(s)) THEN acc
    ELSE ParseDigits(Tail(s), 10 * acc + DigitValue(Head(s)))

RECURSIVE SkipSpaces(_)
SkipSpaces(s) == IF s # <<>> /\ IsSpace(Head(s)) THEN SkipSpaces(Tail(s)) ELSE s

\* the number a decimal text denotes: white space, an optional sign, digits;
\* 0 when there is no digit
ParseLong(s) ==
    LET t == SkipSpaces(s)
    IN  IF t = <<>> THEN 0
        ELSE IF Head(t) = "-" THEN 0 - ParseDigits(Tail(t), 0)
        ELSE IF Head(t) = "+" THEN ParseDigits(Tail(t), 0)
        ELSE ParseDigits(t, 0)

\* the loop of sendMessage that looks for ':' in the topic
HasColon(topic) == \E i \in 1 .. Len(topic) : topic[i] = COLON

IRLED_CONTROL == <<"i","r","l","e","d","/","c","o","n","t","r","o","l">>
IRLED_GET == <<"i","r","l","e","d","/","g","e","t">>
IRLED_STATUS == <<"i","r","l","e","d","/","s","t","a","t","u","s">>
ON == <<"o","n">>
OFF == <<"o","f","f">>

MOISTURE_ERROR == <<"m","o","i","s","t","u","r","e","/","e","r","r","o","r">>
MOISTURE_DATA == <<"m","o","i","s","t","u","r","e","/","d","a","t","a">>
MOISTURE_CALIBRATION == <<"m","o","i","s","t","u","r","e","/","c","a","l","i","b","r","a","t","i","o","n">>
DRY == <<"d","r","y">>
WET == <<"w","e","t">>
ERR_TOO_FREQUENT == <<"M","e","a","s","u","r","e","m","e","n","t"," ","t","o","o"," ","f","r","e","q","u","e","n","t">>
ERR_COMM_FAILED == <<"S","e","n","s","o","r"," ","c","o","m","m","u","n","i","c","a","t","i","o","n"," ","f","a","i","l","e","d"," ","a","f","t","e","r"," ","r","e","t","r","i","e","s">>
ERR_SATURATED == <<"S","e","n","s","o","r"," ","s","a","t","u","r","a","t","e","d"," ","a","t"," ","m","i","n","i","m","u","m"," ","g","a","i","n">>
ERR_DRY_READ == <<"F","a","i","l","e","d"," ","t","o"," ","r","e","a","d"," ","N","I","R"," ","i","n","t","e","n","s","i","t","y"," ","d","u","r","i","n","g"," ","d","r","y"," ","c","a","l","i","b","r","a","t","i","o","n">>
ERR_WET_READ == <<"F","a","i","l","e","d"," ","t","o"," ","r","e","a","d"," ","N","I","R"," ","i","n","t","e","n","s","i","t","y"," ","d","u","r","i","n","g"," ","w","e","t"," ","c","a","l","i","b","r","a","t","i","o","n">>
ERR_CALIBRATION_TYPE == <<"I","n","v","a","l","i","d"," ","c","a","l","i","b","r","a","t","i","o","n"," ","t","y","p","e","."," ","U","s","e"," ","'","d","r","y","'"," ","o","r"," ","'","w","e","t","'">>
\* the pieces of the snprintf formats of MoistureSensor
JSON_ERROR_OPEN == <<"{","\"","e","r","r","o","r","\"",":","\"">>
JSON_ERROR_CLOSE == <<"\"","}">>
JSON_PAPER_PRESENT == <<"{","\"","p","a","p","e","r","_","p","r","e","s","e","n","t","\"",":">>
JSON_MOISTURE == <<",","\"","m","o","i","s","t","u","r","e","\"",":">>
JSON_IS_DRY == <<",","\"","i","s","_","d","r","y","\"",":">>
JSON_TIMESTAMP == <<",","\"","t","i","m","e","s","t","a","m","p","\"",":">>
JSON_CLOSE == <<"}">>
JSON_TYPE == <<"{","\"","t","y","p","e","\"",":","\"">>
JSON_BASELINE == <<"\"",",","\"","b","a","s","e","l","i","n","e","\"",":">>
JSON_SUCCESS == <<",","\"","s","u","c","c","e","s","s","\"",":">>

\* ------------------------------------------------------------ state

VARIABLES
    subscriptions,  \* SerialPubSub::subscriptions, Slots -> Subscription
    receiveBuffer,  \* the first bufferIndex bytes of SerialPubSub::receiveBuffer
    serialIn,       \* bytes sent by the host and not yet read (Serial.available)
    irledState,     \* MoistureSensor::_irledState
    irledPin,       \* level last written to the IR LED pin
    millis,         \* the value millis() returns, milliseconds since start
    lastMeasurementTime, \* MoistureSensor::_lastMeasurementTime
    gain,           \* MoistureSensor::_gain
    integrationTime, \* MoistureSensor::_integrationTime
    calibration,    \* MoistureSensor::_calibration
    lastValidTime,  \* millis() at the start of the last measure() that returned a valid result, -1 if none
    calibrated,     \* the calibration methods that have returned true since start
    fan,            \* FanController::_currentSpeed and the value written to the fan pin
    heater,         \* Heater::_currentPower and the value written to the heater pin
    motor,          \* the members of StepperMotor and the levels of its pins
    intBits,        \* the width of int in the build: 16 or 32
    line,           \* bytes of the inbound line in progress (read since the last terminator)
    log,            \* bytes read, callbacks invoked and messages sent since the last event
    last,           \* the most recent API call or host transmission, with its result
    events          \* number of API calls and host transmissions so far

sensorVars == <<lastMeasurementTime, gain, integrationTime, calibration>>
actuatorVars == <<fan, heater, motor, intBits>>

vars == <<subscriptions, receiveBuffer, serialIn, irledState, irledPin, millis, sensorVars,
          actuatorVars,
          lastValidTime, calibrated, line, log, last, events>>

bufferIndex == Len(receiveBuffer)

MOISTURE_CONFIG_RESPONSE == <<"m","o","i","s","t","u","r","e","/","c","o","n","f","i","g","/","r","e","s","p","o","n","s","e">>
GAIN_FIELD == <<"\"","g","a","i","n","\"">>
INTEGRATION_TIME_FIELD == <<"\"","i","n","t","e","g","r","a","t","i","o","n","_","t","i","m","e","\"">>
JSON_GAIN == <<"{","\"","g","a","i","n","\"",":">>
JSON_INTEGRATION_TIME == <<",","\"","i","n","t","e","g","r","a","t","i","o","n","_","t","i","m","e","\"",":">>
\* the texts of FanController, Heater and StepperMotor
FAN_STATUS == <<"f","a","n","/","s","t","a","t","u","s">>
FAN_ERROR == <<"f","a","n","/","e","r","r","o","r">>
HEATER_STATUS == <<"h","e","a","t","e","r","/","s","t","a","t","u","s">>
HEATER_ERROR == <<"h","e","a","t","e","r","/","e","r","r","o","r">>
HEATER_DEBUG == <<"h","e","a","t","e","r","/","d","e","b","u","g">>
CALLBACK_CALLED == <<"c","a","l","l","b","a","c","k","_","c","a","l","l","e","d">>
ERR_EMPTY == <<"E","m","p","t","y">>
ERR_INVALID == <<"I","n","v","a","l","i","d">>
MOTOR_STATUS == <<"m","o","t","o","r","/","s","t","a","t","u","s">>
MOTOR_ERROR == <<"m","o","t","o","r","/","e","r","r","o","r">>
MOTOR_CONFIG_STATUS == <<"m","o","t","o","r","/","c","o","n","f","i","g","/","s","t","a","t","u","s">>
MOTOR_POSITION == <<"m","o","t","o","r","/","p","o","s","i","t","i","o","n">>
ROTATING == <<"r","o","t","a","t","i","n","g">>
IDLE == <<"i","d","l","e">>
CALIBRATED == <<"c","a","l","i","b","r","a","t","e","d">>
ERR_NUMBER_FORMAT == <<"I","n","v","a","l","i","d"," ","n","u","m","b","e","r"," ","f","o","r","m","a","t">>
ERR_MOTOR_BUSY == <<"M","o","t","o","r"," ","b","u","s","y">>
ERR_CONFIG_FORMAT == <<"I","n","v","a","l","i","d"," ","c","o","n","f","i","g"," ","f","o","r","m","a","t">>
ERR_CONFIG_VALUE == <<"I","n","v","a","l","i","d"," ","c","o","n","f","i","g"," ","v","a","l","u","e">>
ERR_STEPS_RANGE == <<"S","t","e","p","s"," ","o","u","t"," ","o","f"," ","r","a","n","g","e"," ","(","1","-","1","0","0","0","0",")">>
ERR_DELAY_RANGE == <<"D","e","l","a","y"," ","o","u","t"," ","o","f"," ","r","a","n","g","e"," ","(","1","0","0","-","1","0","0","0","0","0"," ","u","s",")">>
ERR_CONFIG_PARAMETER == <<"U","n","k","n","o","w","n"," ","c","o","n","f","i","g"," ","p","a","r","a","m","e","t","e","r">>
STEPS == <<"s","t","e","p","s">>
DELAY == <<"d","e","l","a","y">>
STEPS_FIELD == <<"s","t","e","p","s",":">>
DELAY_FIELD == <<",","d","e","l","a","y",":">>
\* ------------------------------------------------------------ topics

FAN_SPEED == <<"f","a","n","/","s","p","e","e","d">>
FAN_QUERY == <<"f","a","n","/","q","u","e","r","y">>
HEATER_POWER == <<"h","e","a","t","e","r","/","p","o","w","e","r">>
HEATER_QUERY == <<"h","e","a","t","e","r","/","q","u","e","r","y">>
DHT_QUERY == <<"d","h","t","/","q","u","e","r","y">>
MOTOR_ROTATE == <<"m","o","t","o","r","/","r","o","t","a","t","e">>
MOTOR_CONFIG == <<"m","o","t","o","r","/","c","o","n","f","i","g">>
MOTOR_CALIBRATE == <<"m","o","t","o","r","/","c","a","l","i","b","r","a","t","e">>
MOTOR_HOME == <<"m","o","t","o","r","/","h","o","m","e">>
MOTOR_POSITION_GET == <<"m","o","t","o","r","/","p","o","s","i","t","i","o","n","/","g","e","t">>
MOISTURE_MEASURE == <<"m","o","i","s","t","u","r","e","/","m","e","a","s","u","r","e">>
MOISTURE_CALIBRATE == <<"m","o","i","s","t","u","r","e","/","c","a","l","i","b","r","a","t","e">>
MOISTURE_CONFIG == <<"m","o","i","s","t","u","r","e","/","c","o","n","f","i","g">>

\* The subscribe calls of the components' begin(), in the order the
\* components are started: (topic, callback) pairs.
BeginSubscriptions ==
    << <<IRLED_CONTROL, "irledControlCallback">>,
       <<IRLED_GET, "irledGetCallback">>,
       <<MOISTURE_MEASURE, "measureCallback">>,
       <<MOISTURE_CALIBRATE, "calibrateCallback">>,
       <<MOISTURE_CONFIG, "configCallback">>,
       <<FAN_SPEED, "fan.speedCallback">>,
       <<FAN_QUERY, "fan.queryCallback">>,
       <<HEATER_POWER, "heater.powerCallback">>,
       <<HEATER_QUERY, "heater.queryCallback">>,
       <<DHT_QUERY, "dht.queryCallback">>,
       <<MOTOR_ROTATE, "motor.messageCallback">>,
       <<MOTOR_CONFIG, "motor.configCallback">>,
       <<MOTOR_CALIBRATE, "motor.calibrateCallback">>,
       <<MOTOR_HOME, "motor.homeCallback">>,
       <<MOTOR_POSITION_GET, "motor.positionCallback">> >>

\* ------------------------------------------------------------ subscription table

\* SerialPubSub::SerialPubSub: every slot inactive, empty topic, null callback
EmptyTable == [i \in Slots |-> [topic |-> <<>>, callback |-> NULLCB, active |-> FALSE]]

\* faulty variant: the scan never reports a match
findSubscriptionNoMatch(subs, topic) == -1

findSubscription(subs, topic) ==
    LET hits == {i \in Slots : subs[i].active /\ subs[i].topic = topic}
    IN  IF hits = {} THEN -1
        ELSE CHOOSE i \in hits : \A j \in hits : i <= j

\* faulty variant: a full table hands out slot 0 again
findFreeSlotReuse(subs) ==
    LET free == {i \in Slots : ~subs[i].active}
    IN  IF free = {} THEN 0
        ELSE CHOOSE i \in free : \A j \in free : i <= j

findFreeSlot(subs) ==
    LET free == {i \in Slots : ~subs[i].active}
    IN  IF free = {} THEN -1
        ELSE CHOOSE i \in free : \A j \in free : i <= j

\* SerialPubSub::subscribe: the return value and the table it leaves
subscribe(subs, topic, callback) ==
    IF topic = NULLSTR \/ topic = <<>> \/ callback = NULLCB
    THEN [ret |-> FALSE, subs |-> subs]
    ELSE IF strlen(topic) >= MAX_TOPIC_LENGTH
    THEN [ret |-> FALSE, subs |-> subs]
    ELSE LET existingIndex == findSubscription(subs, topic)
             freeSlot == findFreeSlot(subs)
         IN  IF existingIndex >= 0
             THEN [ret |-> TRUE,
                   subs |-> [subs EXCEPT ![existingIndex].callback = callback]]
             ELSE IF freeSlot < 0
             THEN [ret |-> FALSE, subs |-> subs]
             ELSE [ret |-> TRUE,
                   subs |-> [subs EXCEPT ![freeSlot] =
                                [topic |-> topic, callback |-> callback, active |-> TRUE]]]

\* faulty variant: the slot's topic and callback are cleared but it stays active
unsubscribeKeepActive(subs, topic) ==
    IF topic = NULLSTR \/ topic = <<>>
    THEN [ret |-> FALSE, subs |-> subs]
    ELSE LET index == findSubscription(subs, topic)
         IN  IF index < 0
             THEN [ret |-> FALSE, subs |-> subs]
             ELSE [ret |-> TRUE,
                   subs |-> [subs EXCEPT ![index] =
                                [topic |-> <<>>, callback |-> NULLCB, active |-> TRUE]]]

\* SerialPubSub::unsubscribe
unsubscribe(subs, topic) ==
    IF topic = NULLSTR \/ topic = <<>>
    THEN [ret |-> FALSE, subs |-> subs]
    ELSE LET index == findSubscription(subs, topic)
         IN  IF index < 0
             THEN [ret |-> FALSE, subs |-> subs]
             ELSE [ret |-> TRUE,
                   subs |-> [subs EXCEPT ![index] =
                                [topic |-> <<>>, callback |-> NULLCB, active |-> FALSE]]]

\* The table after the first n subscribe calls of BeginSubscriptions.
RECURSIVE BegunTable(_)
BegunTable(n) ==
    IF n = 0 THEN EmptyTable
    ELSE subscribe(BegunTable(n - 1), BeginSubscriptions[n][1], BeginSubscriptions[n][2]).subs

\* ------------------------------------------------------------ publishing

\* faulty variant: the message is printed without its line terminator
sendMessageNoTerminator(topic, payload) ==
    IF topic = NULLSTR \/ topic = <<>> THEN <<>>
    ELSE IF HasColon(topic) THEN <<>>
    ELSE topic \o <<COLON>> \o (IF payload # NULLSTR THEN payload ELSE <<>>)

\* SerialPubSub::sendMessage: the bytes printed on the serial link
sendMessage(topic, payload) ==
    IF topic = NULLSTR \/ topic = <<>> THEN <<>>
    ELSE IF HasColon(topic) THEN <<>>
    ELSE topic \o <<COLON>> \o (IF payload # NULLSTR THEN payload ELSE <<>>) \o <<LF>>

\* SerialPubSub::publish(const char *, const char *): return value and bytes sent
publish(topic, payload) ==
    IF topic = NULLSTR \/ topic = <<>>
    THEN [ret |-> FALSE, out |-> <<>>]
    ELSE [ret |-> TRUE, out |-> sendMessage(topic, payload)]

DigitChars == <<"0","1","2","3","4","5","6","7","8","9">>

\* the decimal digits of n >= 0, most significant first
RECURSIVE UDigits(_)
UDigits(n) == IF n < 10 THEN <<DigitChars[n + 1]>>
              ELSE UDigits(n \div 10) \o <<DigitChars[(n % 10) + 1]>>

\* the last k decimal digits of n >= 0, zero padded
RECURSIVE PadDigits(_, _)
PadDigits(n, k) == IF k = 0 THEN <<>>
                   ELSE PadDigits(n \div 10, k - 1) \o <<DigitChars[(n % 10) + 1]>>

RECURSIVE Pow10(_)
Pow10(k) == IF k = 0 THEN 1 ELSE 10 * Pow10(k - 1)

\* itoa(value, buffer, 10)
itoa(value) == IF value < 0 THEN <<"-">> \o UDigits(0 - value) ELSE UDigits(value)

\* dtostrf(value, 0, decimals, buffer) for the value milli/1000 (three decimal
\* places given exactly) and 0 <= decimals <= 3: rounded to nearest
dtostrf(milli, decimals) ==
    LET mag == IF milli < 0 THEN 0 - milli ELSE milli
        unit == Pow10(3 - decimals)
        scaled == (mag + (unit \div 2)) \div unit
        whole == scaled \div Pow10(decimals)
        frac == scaled % Pow10(decimals)
    IN  (IF milli < 0 THEN <<"-">> ELSE <<>>)
        \o UDigits(whole)
        \o (IF decimals > 0 THEN <<".">> \o PadDigits(frac, decimals) ELSE <<>>)

TRUE_TEXT == <<"t","r","u","e">>
FALSE_TEXT == <<"f","a","l","s","e">>

\* SerialPubSub::publish(const char *, int)
publishInt(topic, value) ==
    IF topic = NULLSTR \/ topic = <<>>
    THEN [ret |-> FALSE, out |-> <<>>]
    ELSE [ret |-> TRUE, out |-> sendMessage(topic, itoa(value))]

\* SerialPubSub::publish(const char *, float, int)
publishFloat(topic, milli, decimals) ==
    IF topic = NULLSTR \/ topic = <<>>
    THEN [ret |-> FALSE, out |-> <<>>]
    ELSE [ret |-> TRUE, out |-> sendMessage(topic, dtostrf(milli, decimals))]

\* SerialPubSub::publish(const char *, bool)
publishBool(topic, value) ==
    IF topic = NULLSTR \/ topic = <<>>
    THEN [ret |-> FALSE, out |-> <<>>]
    ELSE [ret |-> TRUE, out |-> sendMessage(topic, IF value THEN TRUE_TEXT ELSE FALSE_TEXT)]

\* ------------------------------------------------------------ callbacks

\* The state callbacks act on: the record h of Handlers.
ReadEvent(c) == [e |-> "read", c |-> c]
CallEvent(i, cb, topic, payload) ==
    [e |-> "call", slot |-> i, callback |-> cb, topic |-> topic, payload |-> payload]
SendEvent(bytes) == [e |-> "send", bytes |-> bytes]
\* a call of _sensor.readAllChannels and its outcome: FAIL or the NIR reading
SensorEvent(outcome) == [e |-> "sensor", outcome |-> outcome]
\* the start of an iteration of the retry loop of measure()
AttemptEvent(retry) == [e |-> "attempt", retry |-> retry]
\* the return of a method with its result and the IR LED as it leaves it
ReturnEvent(op, result, h) ==
    [e |-> "return", op |-> op, result |-> result,
     irledState |-> h.irledState, irledPin |-> h.irledPin]
\* _sensor.setGain(gain)
GainEvent(newGain) == [e |-> "gain", gain |-> newGain]
IsSensor(x) == x.e = "sensor"

\* a publish issued from a callback: the bytes go out on the link at once
Emit(h, topic, payload) ==
    LET out == publish(topic, payload).out
    IN  IF out = <<>> THEN h ELSE [h EXCEPT !.log = Append(@, SendEvent(out))]

\* delay(ms)
delay(h, ms) == [h EXCEPT !.millis = @ + ms]

\* faulty variant: switching the LED off is not published
setIRLEDOffUnpublished(h, state) ==
    IF state
    THEN delay(Emit([h EXCEPT !.irledState = TRUE, !.irledPin = TRUE], IRLED_STATUS, ON), 10)
    ELSE delay([h EXCEPT !.irledState = FALSE, !.irledPin = FALSE], 10)

\* MoistureSensor::setIRLED
setIRLED(h, state) ==
    delay(Emit([h EXCEPT !.irledState = state, !.irledPin = state],
               IRLED_STATUS, IF state THEN ON ELSE OFF),
          10)

\* MoistureSensor::irledControlCallback
irledControlCallback(h, topic, payload) ==
    IF payload = ON \/ payload = <<"1">> THEN setIRLED(h, TRUE)
    ELSE IF payload = OFF \/ payload = <<"0">> THEN setIRLED(h, FALSE)
    ELSE h

\* MoistureSensor::irledGetCallback
irledGetCallback(h, topic, payload) ==
    Emit(h, IRLED_STATUS, IF h.irledState THEN ON ELSE OFF)

\* ------------------------------------------------------------ moisture sensor

\* snprintf(payload, sizeof(payload), ...) with char payload[128]
snprintf128(text) == IF Len(text) > 127 THEN SubSeq(text, 1, 127) ELSE text

\* MoistureSensor::publishError
publishError(h, error) ==
    Emit(h, MOISTURE_ERROR, snprintf128(JSON_ERROR_OPEN \o error \o JSON_ERROR_CLOSE))

\* MoistureSensor::publishMeasurement; moisturePercent in thousandths of a percent
publishMeasurement(h, result) ==
    Emit(h, MOISTURE_DATA,
         snprintf128(JSON_PAPER_PRESENT \o (IF result.paperPresent THEN TRUE_TEXT ELSE FALSE_TEXT)
                     \o JSON_MOISTURE \o dtostrf(result.moisturePercent, 1)
                     \o JSON_IS_DRY \o (IF result.moisturePercent < 5000 THEN TRUE_TEXT ELSE FALSE_TEXT)
                     \o JSON_TIMESTAMP \o UDigits(h.millis) \o JSON_CLOSE))

\* MoistureSensor::publishCalibration; baseline is a whole number
publishCalibration(h, type, baseline, success) ==
    Emit(h, MOISTURE_CALIBRATION,
         snprintf128(JSON_TYPE \o type \o JSON_BASELINE \o dtostrf(baseline * 1000, 1)
                     \o JSON_SUCCESS \o (IF success THEN TRUE_TEXT ELSE FALSE_TEXT) \o JSON_CLOSE))

\* _sensor.readAllChannels(readings): the next outcome of the sensor, the NIR
\* channel of the readings when the read succeeds
readAllChannels(h) ==
    LET outcome == IF h.feed = <<>> THEN FAIL ELSE Head(h.feed)
    IN  [ok |-> outcome # FAIL,
         nir |-> outcome,
         h |-> [h EXCEPT !.feed = IF @ = <<>> THEN @ ELSE Tail(@),
                         !.log = Append(@, SensorEvent(outcome))]]

\* faulty variant: the gain drops two levels at a time
decreaseGainSkipsLevel(currentGain) ==
    IF currentGain >= AS7341_GAIN_2X THEN currentGain - 2 ELSE AS7341_GAIN_0_5X

\* MoistureSensor::decreaseGain
decreaseGain(currentGain) ==
    CASE currentGain = AS7341_GAIN_512X -> AS7341_GAIN_256X
      [] currentGain = AS7341_GAIN_256X -> AS7341_GAIN_128X
      [] currentGain = AS7341_GAIN_128X -> AS7341_GAIN_64X
      [] currentGain = AS7341_GAIN_64X -> AS7341_GAIN_32X
      [] currentGain = AS7341_GAIN_32X -> AS7341_GAIN_16X
      [] currentGain = AS7341_GAIN_16X -> AS7341_GAIN_8X
      [] currentGain = AS7341_GAIN_8X -> AS7341_GAIN_4X
      [] currentGain = AS7341_GAIN_4X -> AS7341_GAIN_2X
      [] currentGain = AS7341_GAIN_2X -> AS7341_GAIN_1X
      [] currentGain = AS7341_GAIN_1X -> AS7341_GAIN_0_5X
      [] currentGain = AS7341_GAIN_0_5X -> AS7341_GAIN_0_5X
      [] OTHER -> currentGain

\* faulty variant: a change of gain marks the calibration data invalid
setGainInvalidates(h, newGain) ==
    [h EXCEPT !.gain = newGain, !.log = Append(@, GainEvent(newGain)),
              !.calibration.isValid = FALSE]

\* MoistureSensor::setGain
setGain(h, newGain) == [h EXCEPT !.gain = newGain, !.log = Append(@, GainEvent(newGain))]

\* MoistureSensor::handleSaturation on the NIR reading: ret is its return value
handleSaturation(h, nir) ==
    IF nir >= SATURATION_THRESHOLD
    THEN LET newGain == decreaseGain(h.gain)
         IN  IF newGain # h.gain
             THEN [ret |-> TRUE, h |-> setGain(h, newGain)]
             ELSE [ret |-> FALSE, h |-> publishError(h, ERR_SATURATED)]
    ELSE [ret |-> FALSE, h |-> h]

\* faulty variant: the threshold itself counts as paper
detectPaperNonStrict(intensity, ambient) == 2 * intensity >= 3 * ambient

\* MoistureSensor::detectPaper: intensity > ambient * 1.5
detectPaper(intensity, ambient) == 2 * intensity > 3 * ambient

\* 100.0 * numerator / denominator in thousandths for 0 < denominator: the
\* quotient cut after the third decimal place
Percent(numerator, denominator) ==
    LET scaled == 100 * (IF numerator < 0 THEN 0 - numerator ELSE numerator)
        magnitude == (scaled \div denominator) * 1000
                     + ((scaled % denominator) * 1000) \div denominator
    IN  IF numerator < 0 THEN 0 - magnitude ELSE magnitude

\* faulty variant: the result is not brought into the range 0..100
calculateMoistureUnclamped(cal, intensity) ==
    IF cal.isValid /\ cal.dryBaseline > cal.wetBaseline
    THEN IF 10 * (cal.dryBaseline - cal.wetBaseline) > 1
         THEN Percent(cal.dryBaseline - intensity, cal.dryBaseline - cal.wetBaseline)
         ELSE 0
    ELSE Percent(DEFAULT_DRY_BASELINE - intensity, DEFAULT_DRY_BASELINE - DEFAULT_WET_BASELINE)

\* faulty variant: the calibrated scale runs from the wet baseline upwards
calculateMoistureInverted(cal, intensity) ==
    LET moisture ==
            IF cal.isValid /\ cal.dryBaseline > cal.wetBaseline
            THEN Percent(intensity - cal.wetBaseline, cal.dryBaseline - cal.wetBaseline)
            ELSE Percent(DEFAULT_DRY_BASELINE - intensity,
                         DEFAULT_DRY_BASELINE - DEFAULT_WET_BASELINE)
    IN  IF moisture < 0 THEN 0
        ELSE IF moisture > 100000 THEN 100000
        ELSE moisture

\* faulty variant: valid calibration data is used whatever the order of the
\* baselines
calculateMoistureNoOrderCheck(cal, intensity) ==
    LET moisture ==
            IF cal.isValid
            THEN IF 10 * (cal.dryBaseline - cal.wetBaseline) > 1
                 THEN Percent(cal.dryBaseline - intensity, cal.dryBaseline - cal.wetBaseline)
                 ELSE 0
            ELSE Percent(DEFAULT_DRY_BASELINE - intensity,
                         DEFAULT_DRY_BASELINE - DEFAULT_WET_BASELINE)
    IN  IF moisture < 0 THEN 0
        ELSE IF moisture > 100000 THEN 100000
        ELSE moisture

\* MoistureSensor::calculateMoisture, in thousandths of a percent; the
\* baselines and the intensity are whole numbers
calculateMoisture(cal, intensity) ==
    LET moisture ==
            IF cal.isValid /\ cal.dryBaseline > cal.wetBaseline
            THEN LET numerator == cal.dryBaseline - intensity
                     denominator == cal.dryBaseline - cal.wetBaseline
                 IN  IF 10 * denominator > 1
                     THEN Percent(numerator, denominator)
                     ELSE 0
            ELSE LET numerator == DEFAULT_DRY_BASELINE - intensity
                     denominator == DEFAULT_DRY_BASELINE - DEFAULT_WET_BASELINE
                 IN  Percent(numerator, denominator)
    IN  IF moisture < 0 THEN 0
        ELSE IF moisture > 100000 THEN 100000
        ELSE moisture

\* faulty variant: one iteration too many
RetriesLeftInclusive(retry) == retry <= MAX_RETRIES

\* the condition of the retry loop of MoistureSensor::measure
RetriesLeft(retry) == retry < MAX_RETRIES

\* the delay before the next iteration of the retry loop
RetryDelay(h, retry) == IF retry < MAX_RETRIES - 1 THEN delay(h, RETRY_DELAY_MS) ELSE h

InvalidResult == [paperPresent |-> FALSE, moisturePercent |-> 0, isValid |-> FALSE]

\* faulty variant: a failed read of the illuminated exposure leaves the IR LED
\* on, and the retry loop runs as MoistureSensor::measure has it otherwise
RECURSIVE measureRetryLedLeftOn(_, _)
measureRetryLedLeftOn(h, retry) ==
    IF ~RetriesLeft(retry)
    THEN [h |-> publishError(h, ERR_COMM_FAILED), result |-> InvalidResult]
    ELSE
    LET h0 == [h EXCEPT !.log = Append(@, AttemptEvent(retry))]
        r1 == readAllChannels(setIRLED(h0, FALSE))
        s1 == handleSaturation(r1.h, r1.nir)
        ambientIntensity == r1.nir
        r2 == readAllChannels(setIRLED(s1.h, TRUE))
        s2 == handleSaturation(r2.h, r2.nir)
        totalIntensity == r2.nir
        h3 == setIRLED(s2.h, FALSE)
        reflectedIntensity == IF totalIntensity - ambientIntensity < 0 THEN 0
                              ELSE totalIntensity - ambientIntensity
        paperPresent == detectPaper(reflectedIntensity, ambientIntensity)
    IN  IF ~r1.ok THEN measureRetryLedLeftOn(RetryDelay(r1.h, retry), retry + 1)
        ELSE IF s1.ret THEN measureRetryLedLeftOn(RetryDelay(s1.h, retry), retry + 1)
        ELSE IF ~r2.ok THEN measureRetryLedLeftOn(RetryDelay(r2.h, retry), retry + 1)
        ELSE IF s2.ret
        THEN measureRetryLedLeftOn(RetryDelay(setIRLED(s2.h, FALSE), retry), retry + 1)
        ELSE [h |-> h3,
              result |-> [paperPresent |-> paperPresent,
                          moisturePercent |-> IF paperPresent
                                              THEN calculateMoisture(h3.calibration, reflectedIntensity)
                                              ELSE 0,
                          isValid |-> TRUE]]

\* the retry loop of MoistureSensor::measure from iteration retry on
RECURSIVE measureRetry(_, _)
measureRetry(h, retry) ==
    IF ~RetriesLeft(retry)
    THEN [h |-> publishError(h, ERR_COMM_FAILED), result |-> InvalidResult]
    ELSE
    LET h0 == [h EXCEPT !.log = Append(@, AttemptEvent(retry))]
        r1 == readAllChannels(setIRLED(h0, FALSE))
        s1 == handleSaturation(r1.h, r1.nir)
        ambientIntensity == r1.nir
        r2 == readAllChannels(setIRLED(s1.h, TRUE))
        s2 == handleSaturation(r2.h, r2.nir)
        totalIntensity == r2.nir
        h3 == setIRLED(s2.h, FALSE)
        reflectedIntensity == IF totalIntensity - ambientIntensity < 0 THEN 0
                              ELSE totalIntensity - ambientIntensity
        paperPresent == detectPaper(reflectedIntensity, ambientIntensity)
    IN  IF ~r1.ok THEN measureRetry(RetryDelay(r1.h, retry), retry + 1)
        ELSE IF s1.ret THEN measureRetry(RetryDelay(s1.h, retry), retry + 1)
        ELSE IF ~r2.ok THEN measureRetry(RetryDelay(setIRLED(r2.h, FALSE), retry), retry + 1)
        ELSE IF s2.ret THEN measureRetry(RetryDelay(setIRLED(s2.h, FALSE), retry), retry + 1)
        ELSE [h |-> h3,
              result |-> [paperPresent |-> paperPresent,
                          moisturePercent |-> IF paperPresent
                                              THEN calculateMoisture(h3.calibration, reflectedIntensity)
                                              ELSE 0,
                          isValid |-> TRUE]]

\* the return of a method is noted in the log
Returned(op, r) == [r EXCEPT !.h.log = Append(@, ReturnEvent(op, r.result, r.h))]

\* the start time of a measure() that returns a valid result is noted
NoteValid(r, currentTime) ==
    IF r.result.isValid THEN [r EXCEPT !.h.lastValidTime = currentTime] ELSE r

\* faulty variant: the IR LED is switched off before the rate limit is checked
measureLedOffFirst(h) ==
    LET currentTime == h.millis
        h1 == setIRLED(h, FALSE)
    IN  Returned("measure",
            IF currentTime - h.lastMeasurementTime < MIN_MEASUREMENT_INTERVAL
            THEN [h |-> publishError(h1, ERR_TOO_FREQUENT), result |-> InvalidResult]
            ELSE NoteValid(measureRetry([h1 EXCEPT !.lastMeasurementTime = currentTime], 0),
                           currentTime))

\* faulty variant: a call before the minimum interval has passed returns
\* without publishing the error
measureSilentWhenTooFrequent(h) ==
    LET currentTime == h.millis
    IN  Returned("measure",
            IF currentTime - h.lastMeasurementTime < MIN_MEASUREMENT_INTERVAL
            THEN [h |-> h, result |-> InvalidResult]
            ELSE NoteValid(measureRetry([h EXCEPT !.lastMeasurementTime = currentTime], 0),
                           currentTime))

\* MoistureSensor::measure
measure(h) ==
    LET currentTime == h.millis
    IN  Returned("measure",
            IF currentTime - h.lastMeasurementTime < MIN_MEASUREMENT_INTERVAL
            THEN [h |-> publishError(h, ERR_TOO_FREQUENT), result |-> InvalidResult]
            ELSE NoteValid(measureRetry([h EXCEPT !.lastMeasurementTime = currentTime], 0),
                           currentTime))

\* faulty variant: a failed second read leaves the IR LED on
readNIRIntensityLedLeftOn(h) ==
    LET r1 == readAllChannels(setIRLED(h, FALSE))
        r2 == readAllChannels(setIRLED(r1.h, TRUE))
    IN  IF ~r1.ok THEN [h |-> r1.h, result |-> -1]
        ELSE IF ~r2.ok THEN [h |-> r2.h, result |-> -1]
        ELSE [h |-> setIRLED(r2.h, FALSE),
              result |-> IF r2.nir - r1.nir < 0 THEN 0 ELSE r2.nir - r1.nir]

\* MoistureSensor::readNIRIntensity: result is the intensity, or -1 when a read failed
readNIRIntensity(h) ==
    LET r1 == readAllChannels(setIRLED(h, FALSE))
        ambientIntensity == r1.nir
        r2 == readAllChannels(setIRLED(r1.h, TRUE))
        totalIntensity == r2.nir
        h3 == setIRLED(r2.h, FALSE)
    IN  IF ~r1.ok THEN [h |-> r1.h, result |-> -1]
        ELSE IF ~r2.ok THEN [h |-> setIRLED(r2.h, FALSE), result |-> -1]
        ELSE [h |-> h3,
              result |-> IF totalIntensity - ambientIntensity < 0 THEN 0
                         ELSE totalIntensity - ambientIntensity]

\* MoistureSensor::calibrateDry
calibrateDry(h) ==
    LET r == readNIRIntensity(h)
        intensity == r.result
        cal1 == [r.h.calibration EXCEPT !.dryBaseline = intensity, !.timestamp = r.h.millis]
        cal2 == IF cal1.wetBaseline > 0 THEN [cal1 EXCEPT !.isValid = TRUE] ELSE cal1
    IN  Returned("calibrateDry",
            IF intensity < 0
            THEN [h |-> publishError(r.h, ERR_DRY_READ), result |-> FALSE]
            ELSE [h |-> publishCalibration([r.h EXCEPT !.calibration = cal2], DRY,
                                           cal2.dryBaseline, TRUE),
                  result |-> TRUE])

\* faulty variant: the wet calibration marks the data valid on its own
calibrateWetAlwaysValid(h) ==
    LET r == readNIRIntensity(h)
        intensity == r.result
        cal2 == [r.h.calibration EXCEPT !.wetBaseline = intensity, !.timestamp = r.h.millis,
                                        !.isValid = TRUE]
    IN  Returned("calibrateWet",
            IF intensity < 0
            THEN [h |-> publishError(r.h, ERR_WET_READ), result |-> FALSE]
            ELSE [h |-> publishCalibration([r.h EXCEPT !.calibration = cal2], WET,
                                           cal2.wetBaseline, TRUE),
                  result |-> TRUE])

\* MoistureSensor::calibrateWet
calibrateWet(h) ==
    LET r == readNIRIntensity(h)
        intensity == r.result
        cal1 == [r.h.calibration EXCEPT !.wetBaseline = intensity, !.timestamp = r.h.millis]
        cal2 == IF cal1.dryBaseline > 0 THEN [cal1 EXCEPT !.isValid = TRUE] ELSE cal1
    IN  Returned("calibrateWet",
            IF intensity < 0
            THEN [h |-> publishError(r.h, ERR_WET_READ), result |-> FALSE]
            ELSE [h |-> publishCalibration([r.h EXCEPT !.calibration = cal2], WET,
                                           cal2.wetBaseline, TRUE),
                  result |-> TRUE])

\* strstr(s, sub) != nullptr
strstr(s, sub) ==
    \E i \in 1 .. (Len(s) - Len(sub) + 1) : SubSeq(s, i, i + Len(sub) - 1) = sub

\* faulty variant: the result is published whether valid or not
measureCallbackAlwaysPublish(h, topic, payload) ==
    LET r == measure(h)
    IN  publishMeasurement(r.h, r.result)

\* MoistureSensor::measureCallback
measureCallback(h, topic, payload) ==
    LET r == measure(h)
    IN  IF r.result.isValid THEN publishMeasurement(r.h, r.result) ELSE r.h

\* MoistureSensor::calibrateCallback
calibrateCallback(h, topic, payload) ==
    IF strstr(payload, DRY) THEN calibrateDry(h).h
    ELSE IF strstr(payload, WET) THEN calibrateWet(h).h
    ELSE publishError(h, ERR_CALIBRATION_TYPE)

\* atoi on a text whose value fits the int type
atoi(s) == ParseLong(s)

\* MoistureSensor::setIntegrationTime(uint16_t)
setIntegrationTime(h, time) == [h EXCEPT !.integrationTime = time % 65536]

\* MoistureSensor::publishConfig
publishConfig(h) ==
    Emit(h, MOISTURE_CONFIG_RESPONSE,
         snprintf128(JSON_GAIN \o itoa(h.gain) \o JSON_INTEGRATION_TIME
                     \o itoa(h.integrationTime) \o JSON_CLOSE))

\* the switch of configCallback from the number sent to the gain setting
GainOfValue(gainValue) ==
    CASE gainValue = 0 -> AS7341_GAIN_0_5X
      [] gainValue = 1 -> AS7341_GAIN_1X
      [] gainValue = 2 -> AS7341_GAIN_2X
      [] gainValue = 4 -> AS7341_GAIN_4X
      [] gainValue = 8 -> AS7341_GAIN_8X
      [] gainValue = 16 -> AS7341_GAIN_16X
      [] gainValue = 32 -> AS7341_GAIN_32X
      [] gainValue = 64 -> AS7341_GAIN_64X
      [] gainValue = 128 -> AS7341_GAIN_128X
      [] gainValue = 256 -> AS7341_GAIN_256X
      [] gainValue = 512 -> AS7341_GAIN_512X
      [] OTHER -> AS7341_GAIN_128X

\* the number after the first ':' that follows the field in payload; found
\* is false when the field or the ':' is missing
FieldValue(payload, field) ==
    LET fieldStr == strstrAt(payload, field)
        colonPos == strchr(Skip(payload, fieldStr), COLON)
    IN  IF fieldStr = -1 \/ colonPos = -1 THEN [found |-> FALSE, value |-> 0]
        ELSE [found |-> TRUE, value |-> atoi(Skip(Skip(payload, fieldStr), colonPos + 1))]

\* MoistureSensor::configCallback
configCallback(h, topic, payload) ==
    LET gainField == FieldValue(payload, GAIN_FIELD)
        h1 == IF gainField.found THEN setGain(h, GainOfValue(gainField.value)) ELSE h
        timeField == FieldValue(payload, INTEGRATION_TIME_FIELD)
        h2 == IF timeField.found THEN setIntegrationTime(h1, timeField.value) ELSE h1
    IN  publishConfig(h2)

\* ------------------------------------------------------------ numbers in payloads

\* the leading digits of s as a long magnitude: over when it exceeds LONG_MAX,
\* rest is what follows the digits
RECURSIVE StrtolDigits(_, _, _)
StrtolDigits(s, acc, over) ==
    IF s = <<>> \/ ~IsDigit(Head(s)) THEN [value |-> acc, over |-> over, rest |-> s]
    ELSE LET d == DigitValue(Head(s))
             fits == acc < LONG_MAX \div 10 \/ (acc = LONG_MAX \div 10 /\ d <= LONG_MAX % 10)
         IN  IF over \/ ~fits THEN StrtolDigits(Tail(s), acc, TRUE)
             ELSE StrtolDigits(Tail(s), 10 * acc + d, FALSE)

\* strtol(s, &endPtr, 10): white space, an optional sign, digits; the value
\* is held at LONG_MAX or LONG_MIN when out of range; endPtr is s itself when
\* there is no digit
strtol(s) ==
    LET t == SkipSpaces(s)
        neg == t # <<>> /\ Head(t) = "-"
        body == IF t # <<>> /\ Head(t) \in {"-", "+"} THEN Tail(t) ELSE t
        r == StrtolDigits(body, 0, FALSE)
    IN  IF body = <<>> \/ ~IsDigit(Head(body)) THEN [value |-> 0, over |-> FALSE, endPtr |-> s]
        ELSE [value |-> IF r.over THEN (IF neg THEN LONG_MIN ELSE LONG_MAX)
                        ELSE IF neg THEN 0 - r.value ELSE r.value,
              over |-> r.over,
              endPtr |-> r.rest]

\* (int)value for a long value: unchanged when int has 32 bits, reduced
\* modulo 2^16 when it has 16
ToInt(value, bits) ==
    IF bits = 32 THEN value
    ELSE LET m == value % 65536
         IN  IF m >= 32768 THEN m - 65536 ELSE m

\* the leading digits of s modulo 2^32, in two halves of 16 bits
RECURSIVE WrapDigits(_, _, _)
WrapDigits(s, hi, lo) ==
    IF s = <<>> \/ ~IsDigit(Head(s)) THEN <<hi, lo>>
    ELSE LET low == 10 * lo + DigitValue(Head(s))
         IN  WrapDigits(Tail(s), (10 * hi + low \div 65536) % 65536, low % 65536)

\* the long with the bits hi, lo
Signed32(hi, lo) == IF hi >= 32768 THEN (hi - 65536) * 65536 + lo ELSE hi * 65536 + lo

\* atol on a text of digits. A value beyond LONG_MAX is undefined behaviour:
\* the library of the 16-bit build computes modulo 2^32, that of the 32-bit
\* build is strtol
atol(s, bits) ==
    LET r == strtol(s)
        w == WrapDigits(s, 0, 0)
    IN  IF r.over /\ bits = 16 THEN Signed32(w[1], w[2]) ELSE r.value

\* atof on a text of the form [sign] digits [. digits]: the number
\* num / den, negative telling revolutions < 0
atof(s) ==
    LET neg == s # <<>> /\ Head(s) = "-"
        body == IF s # <<>> /\ Head(s) \in {"-", "+"} THEN Tail(s) ELSE s
        dot == strchr(body, ".")
        whole == IF dot = -1 THEN body ELSE SubSeq(body, 1, dot)
        frac == IF dot = -1 THEN <<>> ELSE Skip(body, dot + 1)
        mag == ParseDigits(whole \o frac, 0)
    IN  [negative |-> neg /\ mag > 0, num |-> mag, den |-> Pow10(Len(frac))]

\* a / b and a % b of C for b > 0: the quotient is cut towards zero
CDiv(a, b) == IF a >= 0 THEN a \div b ELSE 0 - ((0 - a) \div b)
CRem(a, b) == a - b * CDiv(a, b)
\* abs
abs(a) == IF a < 0 THEN 0 - a ELSE a

\* ------------------------------------------------------------ fan and heater

\* analogWrite, digitalWrite
WriteEvent(pin, value) == [e |-> "write", pin |-> pin, value |-> value]
\* the step pulses of one rotation
PulsesEvent(steps) == [e |-> "pulses", steps |-> steps]
\* bytes that reach the serial port while a handler runs
ArriveEvent(bytes) == [e |-> "arrive", bytes |-> bytes]

\* FanController::constrainSpeed
constrainSpeed(speed) == IF speed < 0 THEN 0 ELSE IF speed > 255 THEN 255 ELSE speed

\* FanController::publishStatus
fanPublishStatus(h) == Emit(h, FAN_STATUS, itoa(h.fan.currentSpeed))

\* FanController::applySpeed
applySpeed(h, speed) ==
    fanPublishStatus([h EXCEPT !.fan = [currentSpeed |-> speed, pin |-> speed],
                               !.log = Append(@, WriteEvent("fan", speed))])

\* FanController::setSpeed
setSpeed(h, speed) == applySpeed(h, constrainSpeed(speed))

\* FanController::speedCallback
speedCallback(h, topic, payload) ==
    LET r == strtol(payload)
        speed == r.value
    IN  IF payload = <<>> THEN Emit(h, FAN_ERROR, ERR_EMPTY)
        ELSE IF r.endPtr # <<>> THEN Emit(h, FAN_ERROR, ERR_INVALID)
        ELSE setSpeed(h, ToInt(speed, h.intBits))

\* FanController::queryCallback
fanQueryCallback(h, topic, payload) == fanPublishStatus(h)

\* Heater::constrainPower
constrainPower(power) == IF power < 0 THEN 0 ELSE IF power > 255 THEN 255 ELSE power

\* Heater::publishStatus
heaterPublishStatus(h) == Emit(h, HEATER_STATUS, itoa(h.heater.currentPower))

\* Heater::applyPower
applyPower(h, power) ==
    heaterPublishStatus([h EXCEPT !.heater = [currentPower |-> power, pin |-> power],
                                  !.log = Append(@, WriteEvent("heater", power))])

\* Heater::setPower
setPower(h, power) == applyPower(h, constrainPower(power))

\* Heater::powerCallback
powerCallback(h, topic, payload) ==
    LET h1 == Emit(h, HEATER_DEBUG, CALLBACK_CALLED)
        r == strtol(payload)
        power == r.value
    IN  IF payload = <<>> THEN Emit(h1, HEATER_ERROR, ERR_EMPTY)
        ELSE IF r.endPtr # <<>> THEN Emit(h1, HEATER_ERROR, ERR_INVALID)
        ELSE setPower(h1, ToInt(power, h.intBits))

\* Heater::queryCallback
heaterQueryCallback(h, topic, payload) == heaterPublishStatus(h)

\* ------------------------------------------------------------ stepper motor

\* StepperMotor::publishStatus, StepperMotor::publishError
motorPublishStatus(h, status) == Emit(h, MOTOR_STATUS, status)
motorPublishError(h, error) == Emit(h, MOTOR_ERROR, error)

\* snprintf(msg, size, ...): at most size - 1 bytes
snprintf(size, text) == IF Len(text) > size - 1 THEN SubSeq(text, 1, size - 1) ELSE text

\* StepperMotor::publishConfig
motorPublishConfig(h) ==
    Emit(h, MOTOR_CONFIG_STATUS,
         snprintf(50, STEPS_FIELD \o itoa(h.motor.stepsPerRevolution)
                      \o DELAY_FIELD \o itoa(h.motor.stepDelayMicros)))

\* StepperMotor::publishPosition
publishPosition(h) ==
    LET revolutions_x100 == CDiv(h.motor.currentSteps * 100, h.motor.stepsPerRevolution)
        position_mm_x100 == CDiv(revolutions_x100 * 16, 10)
    IN  Emit(h, MOTOR_POSITION,
             snprintf(64, itoa(CDiv(revolutions_x100, 100)) \o <<".">>
                          \o PadDigits(abs(CRem(revolutions_x100, 100)), 2) \o <<",">>
                          \o itoa(CDiv(position_mm_x100, 100)) \o <<".">>
                          \o PadDigits(abs(CRem(position_mm_x100, 100)), 2)))

\* the bytes the host sends during the rotation reach the serial port: they
\* wait there, after those already waiting, until loop() reads them
Arrive(h) ==
    IF h.arrivals = <<>> THEN h
    ELSE [h EXCEPT !.arrivals = Tail(@),
                   !.incoming = @ \o Head(h.arrivals),
                   !.log = Append(@, ArriveEvent(Head(h.arrivals)))]

\* StepperMotor::executeRotation: the loop of pulses runs to its end before
\* anything else is done
executeRotation(h, revolutions) ==
    LET h1 == motorPublishStatus([h EXCEPT !.motor.isBusy = TRUE], ROTATING)
        totalSteps == (revolutions.num * h.motor.stepsPerRevolution) \div revolutions.den
        h2 == [h1 EXCEPT !.motor.dirPin = ~revolutions.negative,
                         !.log = Append(Append(@, WriteEvent("dir", ~revolutions.negative)),
                                        PulsesEvent(totalSteps)),
                         !.millis = @ + (2 * totalSteps * h.motor.stepDelayMicros) \div 1000]
        h3 == IF totalSteps > 0 THEN Arrive(h2) ELSE h2
        h4 == [h3 EXCEPT !.motor.currentSteps =
                             IF revolutions.negative THEN @ - totalSteps ELSE @ + totalSteps,
                         !.motor.isBusy = FALSE]
    IN  publishPosition(motorPublishStatus(h4, IDLE))

\* StepperMotor::rotate
rotate(h, revolutions) == executeRotation(h, revolutions)

\* the checks of messageCallback on the form of the number: a sign, then
\* digits with at most one '.', at least one digit
IsNumberFormat(payload) ==
    LET body == IF payload # <<>> /\ Head(payload) \in {"-", "+"} THEN Tail(payload)
                ELSE payload
        dots == {i \in 1 .. Len(body) : body[i] = "."}
    IN  /\ \A i \in 1 .. Len(body) : IsDigit(body[i]) \/ body[i] = "."
        /\ Cardinality(dots) <= 1
        /\ \E i \in 1 .. Len(body) : IsDigit(body[i])

\* StepperMotor::messageCallback
messageCallback(h, topic, payload) ==
    IF payload = <<>> THEN motorPublishError(h, ERR_NUMBER_FORMAT)
    ELSE IF ~IsNumberFormat(payload) THEN motorPublishError(h, ERR_NUMBER_FORMAT)
    ELSE IF h.motor.isBusy THEN motorPublishError(h, ERR_MOTOR_BUSY)
    ELSE rotate(h, atof(payload))

\* StepperMotor::configCallback
motorConfigCallback(h, topic, payload) ==
    LET separator == strchr(payload, COLON)
        nameLen == separator
        paramName == SubSeq(payload, 1, nameLen)
        valueStr == Skip(payload, separator + 1)
        value == atol(valueStr, h.intBits)
    IN  IF payload = <<>> THEN motorPublishError(h, ERR_CONFIG_FORMAT)
        ELSE IF separator = -1 THEN motorPublishError(h, ERR_CONFIG_FORMAT)
        ELSE IF nameLen >= 20 THEN motorPublishError(h, ERR_CONFIG_FORMAT)
        ELSE IF valueStr = <<>> THEN motorPublishError(h, ERR_CONFIG_FORMAT)
        ELSE IF \E i \in 1 .. Len(valueStr) : ~IsDigit(valueStr[i])
        THEN motorPublishError(h, ERR_CONFIG_VALUE)
        ELSE IF paramName = STEPS
        THEN IF value <= 0 \/ value > 10000
             THEN motorPublishError(h, ERR_STEPS_RANGE)
             ELSE motorPublishConfig([h EXCEPT !.motor.stepsPerRevolution =
                                                   ToInt(value, h.intBits)])
        ELSE IF paramName = DELAY
        THEN IF value < 100 \/ value > 100000
             THEN motorPublishError(h, ERR_DELAY_RANGE)
             ELSE motorPublishConfig([h EXCEPT !.motor.stepDelayMicros = value])
        ELSE motorPublishError(h, ERR_CONFIG_PARAMETER)

\* StepperMotor::calibrateCallback
motorCalibrateCallback(h, topic, payload) ==
    IF h.motor.isBusy THEN motorPublishError(h, ERR_MOTOR_BUSY)
    ELSE publishPosition(motorPublishStatus([h EXCEPT !.motor.currentSteps = 0], CALIBRATED))

\* StepperMotor::homeCallback: the way back to position 0, currentSteps /
\* stepsPerRevolution revolutions in the other direction
homeCallback(h, topic, payload) ==
    IF h.motor.isBusy THEN motorPublishError(h, ERR_MOTOR_BUSY)
    ELSE rotate(h, [negative |-> h.motor.currentSteps > 0,
                    num |-> abs(h.motor.currentSteps),
                    den |-> h.motor.stepsPerRevolution])

\* StepperMotor::positionCallback
positionCallback(h, topic, payload) == publishPosition(h)

\* subscriptions[i].callback(topic, payload); the handler of dht/query reads
\* its own sensor and acts on none of this state
InvokeCallback(cb, h, topic, payload) ==
    CASE cb = "irledControlCallback" -> irledControlCallback(h, topic, payload)
      [] cb = "irledGetCallback" -> irledGetCallback(h, topic, payload)
      [] cb = "measureCallback" -> measureCallback(h, topic, payload)
      [] cb = "calibrateCallback" -> calibrateCallback(h, topic, payload)
      [] cb = "configCallback" -> configCallback(h, topic, payload)
      [] cb = "fan.speedCallback" -> speedCallback(h, topic, payload)
      [] cb = "fan.queryCallback" -> fanQueryCallback(h, topic, payload)
      [] cb = "heater.powerCallback" -> powerCallback(h, topic, payload)
      [] cb = "heater.queryCallback" -> heaterQueryCallback(h, topic, payload)
      [] cb = "motor.messageCallback" -> messageCallback(h, topic, payload)
      [] cb = "motor.configCallback" -> motorConfigCallback(h, topic, payload)
      [] cb = "motor.calibrateCallback" -> motorCalibrateCallback(h, topic, payload)
      [] cb = "motor.homeCallback" -> homeCallback(h, topic, payload)
      [] cb = "motor.positionCallback" -> positionCallback(h, topic, payload)
      [] OTHER -> h

\* ------------------------------------------------------------ ingest

\* the scan of parseMessage over the slots i .. MAX_SUBSCRIPTIONS-1
RECURSIVE Dispatch(_, _, _, _, _)
Dispatch(i, subs, h, topic, payload) ==
    IF i >= MAX_SUBSCRIPTIONS THEN h
    ELSE IF subs[i].active /\ subs[i].topic = topic /\ subs[i].callback # NULLCB
    THEN Dispatch(i + 1, subs,
                  InvokeCallback(subs[i].callback,
                                 [h EXCEPT !.log = Append(@, CallEvent(i, subs[i].callback, topic, payload))],
                                 topic, payload),
                  topic, payload)
    ELSE Dispatch(i + 1, subs, h, topic, payload)

\* SerialPubSub::parseMessage
parseMessage(subs, h, message) ==
    LET colonPos == strchr(message, COLON)
        topicLength == colonPos
    IN  IF colonPos = -1 THEN h
        ELSE IF topicLength = 0 \/ topicLength >= MAX_TOPIC_LENGTH THEN h
        ELSE Dispatch(0, subs, h,
                      SubSeq(message, 1, topicLength),
                      SubSeq(message, colonPos + 2, Len(message)))

\* faulty variant: only LF ends a message (CR is stored like any other byte)
IsTerminatorLFOnly(c) == c = LF

IsTerminator(c) == c = LF \/ c = CR

\* faulty variant: a terminator only marks the message complete; the message is
\* dispatched when the first byte of the next one has been read
loopByteDeferred(subs, buf, h, c) ==
    LET h1 == [h EXCEPT !.log = Append(@, ReadEvent(c))]
        pending == Len(buf) > 0 /\ buf[Len(buf)] = LF
    IN  IF IsTerminator(c)
        THEN IF Len(buf) > 0 /\ ~pending
             THEN [buf |-> Append(buf, LF), h |-> h1]
             ELSE [buf |-> buf, h |-> h1]
        ELSE IF pending
             THEN [buf |-> <<c>>, h |-> parseMessage(subs, h1, SubSeq(buf, 1, Len(buf) - 1))]
             ELSE IF Len(buf) < MAX_MESSAGE_LENGTH - 1
             THEN [buf |-> Append(buf, c), h |-> h1]
             ELSE [buf |-> <<>>, h |-> h1]

\* faulty variant: the receive buffer is emptied only after a message with a
\* delimiter
loopByteKeepsMalformed(subs, buf, h, c) ==
    LET h1 == [h EXCEPT !.log = Append(@, ReadEvent(c))]
    IN  IF IsTerminator(c)
        THEN IF Len(buf) > 0
             THEN [buf |-> IF strchr(buf, COLON) = -1 THEN buf ELSE <<>>,
                   h |-> parseMessage(subs, h1, buf)]
             ELSE [buf |-> buf, h |-> h1]
        ELSE IF Len(buf) < MAX_MESSAGE_LENGTH - 1
             THEN [buf |-> Append(buf, c), h |-> h1]
             ELSE [buf |-> <<>>, h |-> h1]

\* faulty variant: a byte is stored while the index is below the size of
\* the buffer
loopByteFillsBuffer(subs, buf, h, c) ==
    LET h1 == [h EXCEPT !.log = Append(@, ReadEvent(c))]
    IN  IF IsTerminator(c)
        THEN IF Len(buf) > 0
             THEN [buf |-> <<>>, h |-> parseMessage(subs, h1, buf)]
             ELSE [buf |-> buf, h |-> h1]
        ELSE IF Len(buf) < MAX_MESSAGE_LENGTH
             THEN [buf |-> Append(buf, c), h |-> h1]
             ELSE [buf |-> <<>>, h |-> h1]

\* One iteration of the while loop of SerialPubSub::loop on the byte c just
\* read: the receive buffer and the callbacks' state it leaves.
loopByte(subs, buf, h, c) ==
    LET h1 == [h EXCEPT !.log = Append(@, ReadEvent(c))]
    IN  IF IsTerminator(c)
        THEN IF Len(buf) > 0
             THEN [buf |-> <<>>, h |-> parseMessage(subs, h1, buf)]
             ELSE [buf |-> buf, h |-> h1]
        ELSE IF Len(buf) < MAX_MESSAGE_LENGTH - 1
             THEN [buf |-> Append(buf, c), h |-> h1]
             ELSE [buf |-> <<>>, h |-> h1]

\* SerialPubSub::loop: the while loop run over the bytes available, one
\* iteration per byte in arrival order (the run over a sequence is the run
\* over its first half followed by the run over its second half)
RECURSIVE loop(_, _, _, _)
loop(subs, buf, h, bytes) ==
    IF bytes = <<>> THEN [buf |-> buf, h |-> h]
    ELSE IF Len(bytes) = 1 THEN loopByte(subs, buf, h, bytes[1])
    ELSE LET half == Len(bytes) \div 2
             r == loop(subs, buf, h, SubSeq(bytes, 1, half))
         IN  \* the test only makes the first half be computed before the second
             IF Len(r.buf) + Len(r.h.log) >= 0
             THEN loop(subs, r.buf, r.h, SubSeq(bytes, half + 1, Len(bytes)))
             ELSE r

\* the while loop goes on from r over the bytes that reached the port during
\* the handlers
RECURSIVE loopIncoming(_, _)
loopIncoming(subs, r) ==
    IF r.h.incoming = <<>> THEN r
    ELSE loopIncoming(subs, loop(subs, r.buf, [r.h EXCEPT !.incoming = <<>>], r.h.incoming))

\* SerialPubSub::loop while bytes arrive during a handler: Serial.available()
\* stays positive until these are read too, after the bytes that were waiting
loopAvailable(subs, buf, h, bytes) == loopIncoming(subs, loop(subs, buf, h, bytes))

\* the bytes of the line in progress after reading bytes: those after the
\* last terminator, or all of them added to ln when there is none
CurrentLine(ln, bytes) ==
    LET terms == {i \in 1 .. Len(bytes) : bytes[i] = LF \/ bytes[i] = CR}
        lastTerm == CHOOSE i \in terms : \A j \in terms : j <= i
    IN  IF terms = {} THEN ln \o bytes
        ELSE SubSeq(bytes, lastTerm + 1, Len(bytes))

\* ------------------------------------------------------------ inputs

TOPIC_23 == Rep("m", MAX_TOPIC_LENGTH - 1)
TOPIC_24 == Rep("m", MAX_TOPIC_LENGTH)
TOPIC_X == <<"x">>
TOPIC_COLON == <<"a", COLON, "b">>

SubscribeTopics == {NULLSTR, <<>>, IRLED_GET, TOPIC_23, TOPIC_X, TOPIC_24}
SubscribeCallbacks == {"irledGetCallback", "irledControlCallback", NULLCB}
UnsubscribeTopics == {NULLSTR, <<>>, IRLED_GET, TOPIC_23}

PublishTopics == {NULLSTR, <<>>, IRLED_GET, IRLED_CONTROL, TOPIC_COLON, TOPIC_23, TOPIC_24}
\* payloads of the string overload; the long one makes a frame of
\* MAX_MESSAGE_LENGTH bytes before the terminator with IRLED_GET
PublishPayloads ==
    {NULLSTR, <<>>, ON, <<"x", COLON, "y">>, <<"o", "n", LF, "x">>, <<"o", "n", CR>>,
     Rep("p", MAX_MESSAGE_LENGTH - 1 - Len(IRLED_GET) - 1),
     Rep("p", MAX_MESSAGE_LENGTH - Len(IRLED_GET) - 1)}
NumericTopics == {<<>>, IRLED_CONTROL, TOPIC_COLON}
IntValues == {0, 1, -12, 255}
\* (thousandths, decimals)
FloatValues == {<<23456, 2>>, <<-1500, 1>>, <<4, 2>>, <<1996, 2>>, <<700, 0>>}

\* byte streams the host transmits
HostStreams ==
    { IRLED_GET \o <<COLON, LF>>,
      IRLED_CONTROL \o <<COLON>> \o ON \o <<CR, LF>>,
      IRLED_CONTROL \o <<COLON>> \o OFF \o <<CR>>,
      IRLED_CONTROL \o <<COLON>> \o ON \o <<LF>> \o IRLED_GET \o <<COLON, "x", COLON, "y", LF>>,
      <<"i","r","l","e","d">>,
      <<"/","g","e","t", COLON, "1", LF>>,
      <<"x", LF>> \o IRLED_GET \o <<COLON, LF>>,
      <<COLON, "p", LF>> \o IRLED_GET \o <<COLON, LF>>,
      TOPIC_24 \o <<COLON, "p", LF>> \o IRLED_GET \o <<COLON, LF>>,
      TOPIC_23 \o <<COLON, "p", LF>>,
      Rep("x", MAX_MESSAGE_LENGTH) \o IRLED_CONTROL \o <<COLON>> \o ON \o <<LF>>
          \o IRLED_GET \o <<COLON, LF>>,
      IRLED_GET \o <<COLON>> \o Rep("p", MAX_MESSAGE_LENGTH - 1 - Len(IRLED_GET) - 1) \o <<LF>>,
      IRLED_GET \o <<COLON>> \o Rep("p", MAX_MESSAGE_LENGTH - Len(IRLED_GET) - 1) \o <<LF>>
          \o IRLED_GET \o <<COLON, LF>>,
      <<LF, CR, LF>>,
      DHT_QUERY \o <<COLON, "1", LF>> }

\* Number of sensor operations, commands and clock steps explored in one
\* behaviour of the moisture sensor.
MaxSteps == 2

\* outcomes of the sensor for one measure(): FAIL or the NIR reading of a
\* read, none when the call makes no read
MeasureFeeds ==
    { <<>>, <<100, 400>>, <<100, 120>>, <<100, 250>>, <<100, 251>>, <<400, 100>>, <<0, 0>>,
      <<0, 900>>, <<0, 300>>, <<0, 1500>>, <<0, 2000>>, <<0, 100>>, <<100, 64999>>,
      <<65000, 100, 400>>, <<65000, 65535>>, <<65535, 400>>, <<100, 65000>>,
      <<65000, 65535, 65000>>, <<100, 65000, 100, 400>>,
      <<100, 65000, 100, 65000, 100, 65000>>, <<65000, 65000, 65535>>,
      <<FAIL, FAIL, FAIL>>, <<FAIL, 100, 400>>, <<100, FAIL, 100, 400>>,
      <<FAIL, FAIL, 100, 400>>, <<100, FAIL, 100, FAIL, 100, FAIL>>,
      <<FAIL, 65000, 100, 400>>, <<65000, FAIL, 100, 400>>, <<100, FAIL, FAIL, 65000>>,
      <<FAIL, FAIL, FAIL, FAIL>>, <<100, FAIL, 100, FAIL, 100, FAIL, 100, 400>> }

\* outcomes of the sensor for one calibration
CalibrationFeeds ==
    { <<FAIL>>, <<100, FAIL>>, <<0, 1500>>, <<0, 300>>, <<0, 0>>, <<100, 60>>, <<0, 65535>> }

\* the line topic:payload
Command(topic, payload) == topic \o <<COLON>> \o payload \o <<LF>>

\* command lines the host sends to the fan, the heater and the motor
ActuatorStreams ==
    { Command(FAN_SPEED, <<"1","2","8">>),
      Command(FAN_SPEED, <<"0">>),
      Command(FAN_SPEED, <<"2","5","5">>),
      Command(FAN_SPEED, <<"2","5","6">>),
      Command(FAN_SPEED, <<"3","0","0">>),
      Command(FAN_SPEED, <<"-","5">>),
      Command(FAN_SPEED, <<"-","1">>),
      Command(FAN_SPEED, <<"6","5","5","3","6">>),
      Command(FAN_SPEED, <<"3","2","7","6","8">>),
      Command(FAN_SPEED, <<"4","2","9","4","9","6","7","2","9","6">>),
      Command(FAN_SPEED, <<>>),
      Command(FAN_SPEED, <<"a","b","c">>),
      Command(FAN_SPEED, <<"1","2","x">>),
      Command(FAN_SPEED, <<" ","1","2">>),
      Command(FAN_SPEED, <<"+","7">>),
      Command(FAN_SPEED, <<"-">>),
      Command(FAN_SPEED, <<"1",".","5">>),
      Command(HEATER_POWER, <<"1","2","8">>),
      Command(HEATER_POWER, <<"3","0","0">>),
      Command(HEATER_POWER, <<"-","5">>),
      Command(HEATER_POWER, <<"6","5","5","3","6">>),
      Command(HEATER_POWER, <<"3","2","7","6","8">>),
      Command(HEATER_POWER, <<>>),
      Command(HEATER_POWER, <<"a","b","c">>),
      Command(HEATER_POWER, <<"1","2","x">>),
      Command(MOTOR_ROTATE, <<"1">>),
      Command(MOTOR_ROTATE, <<"-","1">>),
      Command(MOTOR_ROTATE, <<"0",".","5">>),
      Command(MOTOR_ROTATE, <<"2">>),
      Command(MOTOR_ROTATE, <<"-","0",".","2","5">>),
      Command(MOTOR_ROTATE, <<>>),
      Command(MOTOR_ROTATE, <<"a","b","c">>),
      Command(MOTOR_ROTATE, <<"1",".","2",".","3">>),
      Command(MOTOR_ROTATE, <<"-">>),
      Command(MOTOR_ROTATE, <<".">>),
      Command(MOTOR_ROTATE, <<"1","e","2">>),
      Command(MOTOR_ROTATE, <<"+","1">>),
      Command(MOTOR_CONFIG, <<"s","t","e","p","s",":","4","0","0">>),
      Command(MOTOR_CONFIG, <<"s","t","e","p","s",":","1">>),
      Command(MOTOR_CONFIG, <<"s","t","e","p","s",":","0">>),
      Command(MOTOR_CONFIG, <<"s","t","e","p","s",":","1","0","0","0","0">>),
      Command(MOTOR_CONFIG, <<"s","t","e","p","s",":","1","0","0","0","1">>),
      Command(MOTOR_CONFIG, <<"d","e","l","a","y",":","1","0","0">>),
      Command(MOTOR_CONFIG, <<"d","e","l","a","y",":","9","9">>),
      Command(MOTOR_CONFIG, <<"d","e","l","a","y",":","1","0","0","0","0","0">>),
      Command(MOTOR_CONFIG, <<"d","e","l","a","y",":","1","0","0","0","0","1">>),
      Command(MOTOR_CONFIG, <<"s","t","e","p","s">>),
      Command(MOTOR_CONFIG, <<"s","t","e","p","s",":">>),
      Command(MOTOR_CONFIG, <<"s","t","e","p","s",":","4","x">>),
      Command(MOTOR_CONFIG, <<"s","t","e","p","s",":","-","5">>),
      Command(MOTOR_CONFIG, <<"s","p","e","e","d",":","5">>),
      Command(MOTOR_CONFIG, <<":","5">>),
      Command(MOTOR_CONFIG, <<"s","s","s","s","s","s","s","s","s","s","s","s","s","s","s","s","s","s","s","s",":","5">>),
      Command(MOTOR_CONFIG, <<"s","t","e","p","s",":","4","2","9","4","9","6","7","6","9","6">>),
      Command(MOTOR_CONFIG, <<"d","e","l","a","y",":","4","2","9","4","9","6","7","3","9","6">>),
      Command(MOTOR_CONFIG, <<"s","t","e","p","s",":","9","9","9","9","9","9","9","9","9","9","9">>),
      Command(FAN_QUERY, <<>>),
      Command(HEATER_QUERY, <<>>),
      Command(MOTOR_CALIBRATE, <<>>),
      Command(MOTOR_HOME, <<>>),
      Command(MOTOR_POSITION_GET, <<>>),
      Command(FAN_SPEED, <<"1","2","8">>) \o Command(FAN_SPEED, <<"a","b","c">>),
      Command(FAN_SPEED, <<"1","2","8">>) \o Command(FAN_SPEED, <<>>),
      Command(FAN_SPEED, <<"2","0","0">>) \o Command(FAN_SPEED, <<"6","5","5","3","6">>),
      Command(HEATER_POWER, <<"1","2","8">>) \o Command(HEATER_POWER, <<"1","2","x">>),
      Command(HEATER_POWER, <<"2","0","0">>) \o Command(HEATER_POWER, <<>>),
      Command(FAN_SPEED, <<"1","2","8">>) \o Command(FAN_QUERY, <<>>),
      Command(HEATER_POWER, <<"7","7">>) \o Command(HEATER_QUERY, <<>>),
      Command(MOTOR_ROTATE, <<"1">>) \o Command(MOTOR_ROTATE, <<"-","1">>),
      Command(MOTOR_ROTATE, <<"1">>) \o Command(MOTOR_ROTATE, <<"1",".","2",".","3">>),
      Command(MOTOR_ROTATE, <<"1">>) \o Command(MOTOR_HOME, <<>>),
      Command(MOTOR_ROTATE, <<"-","0",".","5">>) \o Command(MOTOR_HOME, <<>>),
      Command(MOTOR_ROTATE, <<"1">>) \o Command(MOTOR_CALIBRATE, <<>>) \o Command(MOTOR_POSITION_GET, <<>>),
      Command(MOTOR_ROTATE, <<"0",".","5">>) \o Command(MOTOR_POSITION_GET, <<>>),
      Command(MOTOR_CONFIG, <<"s","t","e","p","s",":","4","0","0">>) \o Command(MOTOR_ROTATE, <<"0",".","5">>),
      Command(MOTOR_CONFIG, <<"s","t","e","p","s",":","4","0","0">>) \o Command(MOTOR_CONFIG, <<"s","t","e","p","s",":","0">>),
      Command(MOTOR_CONFIG, <<"d","e","l","a","y",":","5","0","0">>) \o Command(MOTOR_CONFIG, <<"d","e","l","a","y",":","9","9">>),
      Command(MOTOR_CONFIG, <<"s","t","e","p","s",":","4","0","0">>) \o Command(MOTOR_CONFIG, <<"s","t","e","p","s","=","5">>),
      Command(MOTOR_ROTATE, <<"1">>) \o Command(MOTOR_CONFIG, <<"s","t","e","p","s",":","2","0","0","0","0">>) }

\* what the host sends while the motor turns: one line per rotation, the
\* first during the first rotation, the second during the second
Arrivals ==
    { <<>>,
      <<Command(MOTOR_ROTATE, <<"1">>)>>,
      <<Command(MOTOR_ROTATE, <<"-","1">>), Command(MOTOR_HOME, <<>>)>>,
      <<Command(MOTOR_CALIBRATE, <<>>)>>,
      <<Command(MOTOR_CONFIG, <<"s","t","e","p","s",":","4","0","0">>)>>,
      <<Command(FAN_SPEED, <<"1","2","8">>)>>,
      <<Command(MOTOR_HOME, <<>>)>> }

\* the bytes of the lines of a in order
RECURSIVE Flatten(_)
Flatten(a) == IF a = <<>> THEN <<>> ELSE Head(a) \o Flatten(Tail(a))

IRLED_GET_COMMAND == IRLED_GET \o <<COLON, LF>>
MEASURE_COMMAND == MOISTURE_MEASURE \o <<COLON, LF>>
CALIBRATE_DRY_COMMAND == MOISTURE_CALIBRATE \o <<COLON>> \o DRY \o <<LF>>
CALIBRATE_WET_COMMAND == MOISTURE_CALIBRATE \o <<COLON>> \o WET \o <<LF>>
IRLED_ON_COMMAND == IRLED_CONTROL \o <<COLON>> \o ON \o <<LF>>

\* moisture/config:{"gain":v} and moisture/config:{"integration_time":v}
ConfigGainCommand(v) ==
    MOISTURE_CONFIG \o <<COLON>> \o JSON_GAIN \o itoa(v) \o JSON_CLOSE \o <<LF>>
IRLED_OFF_COMMAND == IRLED_CONTROL \o <<COLON>> \o OFF \o <<LF>>

\* gain values sent on moisture/config: supported ones and others
ConfigGainValues == {0, 1, 64, 512, 3, 100, 1024, -1}

\* command lines the host sends to the moisture sensor
CommandStreams ==
    { MEASURE_COMMAND,
      IRLED_ON_COMMAND,
      IRLED_ON_COMMAND \o MEASURE_COMMAND,
      CALIBRATE_DRY_COMMAND \o CALIBRATE_WET_COMMAND \o MEASURE_COMMAND,
      MOISTURE_CONFIG \o <<COLON>> \o JSON_GAIN \o itoa(512) \o JSON_INTEGRATION_TIME
          \o itoa(29) \o JSON_CLOSE \o <<LF>> }

\* command lines that change the configuration, alone and among calibration,
\* measurement and IR LED commands
ConfigStreams ==
    {ConfigGainCommand(v) : v \in ConfigGainValues}
    \cup
    { MOISTURE_CONFIG \o <<COLON>> \o JSON_GAIN \o itoa(64) \o JSON_INTEGRATION_TIME
          \o itoa(29) \o JSON_CLOSE \o <<LF>>,
      MOISTURE_CONFIG \o <<COLON>> \o JSON_GAIN \o <<"x", "}", LF>>,
      MOISTURE_CONFIG \o <<COLON, LF>>,
      CALIBRATE_DRY_COMMAND \o CALIBRATE_WET_COMMAND \o ConfigGainCommand(1)
          \o IRLED_ON_COMMAND \o IRLED_OFF_COMMAND,
      CALIBRATE_DRY_COMMAND \o CALIBRATE_WET_COMMAND \o CALIBRATE_DRY_COMMAND,
      CALIBRATE_WET_COMMAND \o CALIBRATE_DRY_COMMAND \o CALIBRATE_WET_COMMAND,
      CALIBRATE_DRY_COMMAND \o CALIBRATE_WET_COMMAND,
      ConfigGainCommand(512) \o MEASURE_COMMAND,
      ConfigGainCommand(1) \o MEASURE_COMMAND,
      MEASURE_COMMAND,
      <<"x", LF>> \o IRLED_GET_COMMAND
          \o Rep("p", MAX_MESSAGE_LENGTH + 6) \o <<LF>> \o IRLED_GET_COMMAND
          \o Command(FAN_SPEED, <<"a", "b", "c">>) \o IRLED_GET_COMMAND
          \o MEASURE_COMMAND \o IRLED_GET_COMMAND
          \o CALIBRATE_DRY_COMMAND \o IRLED_GET_COMMAND,
      Rep("p", MAX_MESSAGE_LENGTH + 6) \o <<LF>> \o MEASURE_COMMAND,
      Command(MOISTURE_CALIBRATE, <<"d", "a", "m", "p">>) \o CALIBRATE_WET_COMMAND,
      Command(MOTOR_CONFIG, <<"s", "t", "e", "p", "s", COLON, "0">>)
          \o Command(MOTOR_POSITION_GET, <<>>) }

\* outcomes of the sensor while loop() serves one transmission
ServiceFeeds ==
    MeasureFeeds
    \cup { <<0, 1500, 0, 300, 0, 900>>, <<0, 1500, 0, 300, 0, 300>>,
           <<0, 300, 0, 1500, 0, 900>>, <<0, 1500, 0, 300, 100, 120>>,
           <<0, 1500, FAIL, FAIL, FAIL, FAIL>>, <<0, 1500, 0, 1500, 0, 900>>,
           <<0, 1500, 0, 300>>, <<0, 1500, 0, 300, 0, 0>>, <<0, 300, 0, 1500, 0, 0>>,
           <<0, 1500, 0, 300, 100, FAIL>>, <<0, 1500, 100, FAIL, 0, 0>>,
           <<0, 0, 0, 300>>, <<FAIL, 0, 300>>, <<0, 1500, FAIL>> }

TickSteps == {100, 500}
GainSettings == {AS7341_GAIN_0_5X, AS7341_GAIN_1X, AS7341_GAIN_512X}

\* ------------------------------------------------------------ behaviour

Event(op, topic, arg, ret, out) ==
    [op |-> op, topic |-> topic, arg |-> arg, ret |-> ret, out |-> out,
     buf0 |-> receiveBuffer, line0 |-> line]

\* StepperMotor::StepperMotor and the pin levels begin() writes
InitialMotor ==
    [stepsPerRevolution |-> DEFAULT_STEPS_PER_REVOLUTION,
     stepDelayMicros |-> DEFAULT_STEP_DELAY_MICROS,
     isBusy |-> FALSE, currentSteps |-> 0, dirPin |-> FALSE, stepPin |-> FALSE]

\* after the constructors, or after every component's begin()
Init ==
    /\ subscriptions \in {EmptyTable, BegunTable(Len(BeginSubscriptions))}
    /\ receiveBuffer = <<>>
    /\ serialIn = <<>>
    /\ irledState = FALSE
    /\ irledPin = FALSE
    /\ millis = 0
    /\ lastMeasurementTime = 0
    /\ gain = AS7341_GAIN_128X
    /\ integrationTime = 100
    /\ calibration = [dryBaseline |-> 0, wetBaseline |-> 0, timestamp |-> 0, isValid |-> FALSE]
    /\ lastValidTime = -1
    /\ calibrated = {}
    /\ fan = [currentSpeed |-> 0, pin |-> 0]
    /\ heater = [currentPower |-> 0, pin |-> 0]
    /\ motor = InitialMotor
    /\ intBits = 16
    /\ line = <<>>
    /\ log = <<>>
    /\ last = Event("init", <<>>, <<>>, TRUE, <<>>)
    /\ events = 0

\* an API call from the sketch, made between two calls of loop()
ApiCall(ev, subs) ==
    /\ serialIn = <<>>
    /\ events < MaxEvents
    /\ events' = events + 1
    /\ subscriptions' = subs
    /\ last' = ev
    /\ log' = <<>>
    /\ UNCHANGED <<receiveBuffer, serialIn, irledState, irledPin, millis, sensorVars, actuatorVars,
                   lastValidTime, calibrated, line>>

Subscribe ==
    \E t \in SubscribeTopics, cb \in SubscribeCallbacks :
        LET r == subscribe(subscriptions, t, cb)
        IN  ApiCall(Event("subscribe", t, cb, r.ret, <<>>), r.subs)

Unsubscribe ==
    \E t \in UnsubscribeTopics :
        LET r == unsubscribe(subscriptions, t)
        IN  ApiCall(Event("unsubscribe", t, NULLCB, r.ret, <<>>), r.subs)

Publish ==
    \E t \in PublishTopics, p \in PublishPayloads :
        LET r == publish(t, p)
        IN  ApiCall(Event("publish", t, p, r.ret, r.out), subscriptions)

PublishInt ==
    \E t \in NumericTopics, v \in IntValues :
        LET r == publishInt(t, v)
        IN  ApiCall(Event("publishInt", t, <<v>>, r.ret, r.out), subscriptions)

PublishFloat ==
    \E t \in NumericTopics, v \in FloatValues :
        LET r == publishFloat(t, v[1], v[2])
        IN  ApiCall(Event("publishFloat", t, v, r.ret, r.out), subscriptions)

PublishBool ==
    \E t \in NumericTopics, v \in BOOLEAN :
        LET r == publishBool(t, v)
        IN  ApiCall(Event("publishBool", t, <<v>>, r.ret, r.out), subscriptions)

\* the host puts bytes on the link
Transmit(ev, bytes) ==
    /\ serialIn = <<>>
    /\ events < MaxEvents
    /\ events' = events + 1
    /\ serialIn' = bytes
    /\ last' = ev
    /\ log' = <<>>
    /\ UNCHANGED <<subscriptions, receiveBuffer, irledState, irledPin, millis, sensorVars, actuatorVars,
                   lastValidTime, calibrated, line>>

HostSend ==
    \E s \in HostStreams : Transmit(Event("send", <<>>, s, TRUE, s), s)

\* the host sends back the bytes of the message just published
Echo ==
    /\ last.op = "publish"
    /\ last.out # <<>>
    /\ Transmit(Event("echo", last.topic, last.arg, TRUE, last.out), last.out)

\* the state the handlers act on, with the outcomes the sensor gives to the
\* reads made during the step
Handlers(feed) ==
    [irledState |-> irledState, irledPin |-> irledPin, log |-> log, millis |-> millis,
     lastMeasurementTime |-> lastMeasurementTime, gain |-> gain,
     integrationTime |-> integrationTime, calibration |-> calibration,
     lastValidTime |-> lastValidTime, feed |-> feed,
     fan |-> fan, heater |-> heater, motor |-> motor, intBits |-> intBits,
     arrivals |-> <<>>, incoming |-> <<>>]

\* the calibration methods that return true in the log
CalibratedIn(evs) ==
    {evs[i].op : i \in {k \in 1 .. Len(evs) :
                            /\ evs[k].e = "return"
                            /\ evs[k].op \in {"calibrateDry", "calibrateWet"}
                            /\ evs[k].result = TRUE}}

\* the step leaves the state h; the sensor was read exactly Len(feed) times
Adopt(h, feed) ==
    /\ Len(SelectSeq(h.log, IsSensor)) = Len(feed)
    /\ irledState' = h.irledState
    /\ irledPin' = h.irledPin
    /\ millis' = h.millis
    /\ lastMeasurementTime' = h.lastMeasurementTime
    /\ gain' = h.gain
    /\ integrationTime' = h.integrationTime
    /\ calibration' = h.calibration
    /\ lastValidTime' = h.lastValidTime
    /\ calibrated' = calibrated \cup CalibratedIn(h.log)
    /\ fan' = h.fan
    /\ heater' = h.heater
    /\ motor' = h.motor
    /\ intBits' = h.intBits
    /\ log' = h.log

\* loop() reads the bytes available and dispatches the complete messages,
\* the sensor giving the outcomes of feed
LoopWith(feed) ==
    /\ serialIn # <<>>
    /\ LET r == loop(subscriptions, receiveBuffer, Handlers(feed), serialIn)
       IN  /\ receiveBuffer' = r.buf
           /\ Adopt(r.h, feed)
    /\ line' = CurrentLine(line, serialIn)
    /\ serialIn' = <<>>
    /\ UNCHANGED <<subscriptions, last, events>>

\* loop() while the handlers it runs do not read the sensor
Loop == LoopWith(<<>>)

Next ==
    \/ Subscribe
    \/ Unsubscribe
    \/ Publish
    \/ PublishInt
    \/ PublishFloat
    \/ PublishBool
    \/ HostSend
    \/ Echo
    \/ Loop

Spec == Init /\ [][Next]_vars

\* ------------------------------------------------------------ moisture sensor behaviour

\* after begin() of every component, at start or some time later
InitMoisture ==
    /\ subscriptions = BegunTable(Len(BeginSubscriptions))
    /\ receiveBuffer = <<>>
    /\ serialIn = <<>>
    /\ irledState = FALSE
    /\ irledPin = FALSE
    /\ millis \in {0, 600}
    /\ lastMeasurementTime = 0
    /\ gain = AS7341_GAIN_128X
    /\ integrationTime = 100
    /\ calibration = [dryBaseline |-> 0, wetBaseline |-> 0, timestamp |-> 0, isValid |-> FALSE]
    /\ lastValidTime = -1
    /\ calibrated = {}
    /\ fan = [currentSpeed |-> 0, pin |-> 0]
    /\ heater = [currentPower |-> 0, pin |-> 0]
    /\ motor = InitialMotor
    /\ intBits = 16
    /\ line = <<>>
    /\ log = <<>>
    /\ last = Event("init", <<>>, <<>>, TRUE, <<>>)
    /\ events = 0

\* a method of MoistureSensor called from the sketch between two calls of
\* loop(): r is what it returns and the state it leaves
SensorCall(op, feed, r) ==
    /\ serialIn = <<>>
    /\ events < MaxSteps
    /\ events' = events + 1
    /\ Adopt(r.h, feed)
    /\ last' = Event(op, <<>>, feed, r.result, <<>>)
    /\ UNCHANGED <<subscriptions, receiveBuffer, serialIn, line>>

Measure ==
    \E feed \in MeasureFeeds :
        SensorCall("measure", feed, measure([Handlers(feed) EXCEPT !.log = <<>>]))

CalibrateDry ==
    \E feed \in CalibrationFeeds :
        SensorCall("calibrateDry", feed, calibrateDry([Handlers(feed) EXCEPT !.log = <<>>]))

CalibrateWet ==
    \E feed \in CalibrationFeeds :
        SensorCall("calibrateWet", feed, calibrateWet([Handlers(feed) EXCEPT !.log = <<>>]))

\* MoistureSensor::setGain called from the sketch
SetGain ==
    \E g \in GainSettings :
        SensorCall("setGain", <<>>,
                   [h |-> setGain([Handlers(<<>>) EXCEPT !.log = <<>>], g), result |-> TRUE])

\* time passes while the sketch does something else
Tick ==
    \E d \in TickSteps :
        /\ serialIn = <<>>
        /\ events < MaxSteps
        /\ events' = events + 1
        /\ millis' = millis + d
        /\ last' = Event("tick", <<>>, <<d>>, TRUE, <<>>)
        /\ log' = <<>>
        /\ UNCHANGED <<subscriptions, receiveBuffer, serialIn, irledState, irledPin,
                       sensorVars, actuatorVars, lastValidTime, calibrated, line>>

\* the host sends command lines
HostCommand ==
    \E s \in CommandStreams :
        /\ serialIn = <<>>
        /\ events < MaxSteps
        /\ events' = events + 1
        /\ serialIn' = s
        /\ last' = Event("send", <<>>, s, TRUE, s)
        /\ log' = <<>>
        /\ UNCHANGED <<subscriptions, receiveBuffer, irledState, irledPin, millis,
                       sensorVars, actuatorVars, lastValidTime, calibrated, line>>

\* loop() serves the bytes available while the sensor gives the outcomes of feed
Service == \E feed \in ServiceFeeds : LoopWith(feed)

NextMoisture ==
    \/ Measure
    \/ CalibrateDry
    \/ CalibrateWet
    \/ SetGain
    \/ Tick
    \/ HostCommand
    \/ Service

SpecMoisture == InitMoisture /\ [][NextMoisture]_vars

\* ------------------------------------------------------------ host commands

\* Number of transmissions of the host explored in one behaviour of
\* SpecCommands; a transmission carries up to five command lines.
MaxCommands == 1

\* the host sends configuration, calibration, measurement and IR LED commands
HostConfig ==
    \E s \in ConfigStreams :
        /\ serialIn = <<>>
        /\ events < MaxCommands
        /\ events' = events + 1
        /\ serialIn' = s
        /\ last' = Event("send", <<>>, s, TRUE, s)
        /\ log' = <<>>
        /\ UNCHANGED <<subscriptions, receiveBuffer, irledState, irledPin, millis,
                       sensorVars, actuatorVars, lastValidTime, calibrated, line>>

NextCommands ==
    \/ HostConfig
    \/ Service

\* the moisture sensor driven by the host alone
SpecCommands == InitMoisture /\ [][NextCommands]_vars

\* ------------------------------------------------------------ fan, heater and motor

\* after begin() of every component, on a board whose int has 16 bits or 32
InitActuators ==
    /\ subscriptions = BegunTable(Len(BeginSubscriptions))
    /\ receiveBuffer = <<>>
    /\ serialIn = <<>>
    /\ irledState = FALSE
    /\ irledPin = FALSE
    /\ millis = 0
    /\ lastMeasurementTime = 0
    /\ gain = AS7341_GAIN_128X
    /\ integrationTime = 100
    /\ calibration = [dryBaseline |-> 0, wetBaseline |-> 0, timestamp |-> 0, isValid |-> FALSE]
    /\ lastValidTime = -1
    /\ calibrated = {}
    /\ fan = [currentSpeed |-> 0, pin |-> 0]
    /\ heater = [currentPower |-> 0, pin |-> 0]
    /\ motor = InitialMotor
    /\ intBits \in {16, 32}
    /\ line = <<>>
    /\ log = <<>>
    /\ last = Event("init", <<>>, <<>>, TRUE, <<>>)
    /\ events = 0

\* the host sends commands for the fan, the heater or the motor
HostActuator ==
    \E s \in ActuatorStreams :
        /\ serialIn = <<>>
        /\ events < MaxCommands
        /\ events' = events + 1
        /\ serialIn' = s
        /\ last' = Event("send", <<>>, s, TRUE, s)
        /\ log' = <<>>
        /\ UNCHANGED <<subscriptions, receiveBuffer, irledState, irledPin, millis,
                       sensorVars, actuatorVars, lastValidTime, calibrated, line>>

\* loop() serves the bytes available and those of a, which reach the port
\* while the motor turns
Serve ==
    \E a \in Arrivals :
        /\ serialIn # <<>>
        /\ \E r \in {loopAvailable(subscriptions, receiveBuffer,
                                    [Handlers(<<>>) EXCEPT !.arrivals = a], serialIn)} :
               /\ r.h.arrivals = <<>>
               /\ receiveBuffer' = r.buf
               /\ Adopt(r.h, <<>>)
        /\ line' = CurrentLine(line, serialIn \o Flatten(a))
        /\ serialIn' = <<>>
        /\ UNCHANGED <<subscriptions, last, events>>

NextActuators ==
    \/ HostActuator
    \/ Serve

\* the fan, the heater and the motor driven by the host
SpecActuators == InitActuators /\ [][NextActuators]_vars

SUBSCRIBED_OK == <<"s","u","b","s","c","r","i","b","e","d","_","o","k">>
SUBSCRIBE_FAILED == <<"s","u","b","s","c","r","i","b","e","_","f","a","i","l","e","d">>
DHT_STATUS == <<"d","h","t","/","s","t","a","t","u","s">>
INITIALIZING == <<"i","n","i","t","i","a","l","i","z","i","n","g">>
MOISTURE_STATUS == <<"m","o","i","s","t","u","r","e","/","s","t","a","t","u","s">>
SENSOR_ERROR == <<"s","e","n","s","o","r","_","e","r","r","o","r">>
READY == <<"r","e","a","d","y">>
ERR_SENSOR_NOT_FOUND == <<"A","S","7","3","4","1"," ","s","e","n","s","o","r"," ","n","o","t"," ","f","o","u","n","d">>

\* ------------------------------------------------------------ start of the components

\* the components that register handlers on the bus
Components == {"fan", "heater", "dht", "motor", "moisture"}

\* the start of begin() of a component, a subscribe call and its return value
BeginEvent(component) == [e |-> "begin", component |-> component]
SubscribeEvent(topic, callback, ret) ==
    [e |-> "subscribe", topic |-> topic, callback |-> callback, ret |-> ret]

\* _pubsub->subscribe(topic, callback) in a begin(): b holds the table, the
\* state of the components and whether every subscribe so far returned true
subscribeIn(b, topic, callback) ==
    LET r == subscribe(b.subs, topic, callback)
    IN  [subs |-> r.subs,
         ok |-> b.ok /\ r.ret,
         h |-> [b.h EXCEPT !.log = Append(@, SubscribeEvent(topic, callback, r.ret))]]

\* a publish in a begin()
publishIn(b, topic, payload) == [b EXCEPT !.h = Emit(b.h, topic, payload)]

\* FanController::begin
fanBegin(b) ==
    subscribeIn(
        subscribeIn([b EXCEPT !.h.fan.pin = 0, !.h.log = Append(@, WriteEvent("fan", 0))],
                    FAN_SPEED, "fan.speedCallback"),
        FAN_QUERY, "fan.queryCallback")

\* the publish that ends Heater::begin
heaterBeginReport(b) ==
    publishIn(b, HEATER_DEBUG, IF b.ok THEN SUBSCRIBED_OK ELSE SUBSCRIBE_FAILED)

\* Heater::begin
heaterBegin(b) ==
    heaterBeginReport(
        subscribeIn(
            subscribeIn([b EXCEPT !.ok = TRUE, !.h.heater.pin = 0,
                                  !.h.log = Append(@, WriteEvent("heater", 0))],
                        HEATER_POWER, "heater.powerCallback"),
            HEATER_QUERY, "heater.queryCallback"))

\* DHT22Sensor::begin
dhtBegin(b) ==
    publishIn(subscribeIn(b, DHT_QUERY, "dht.queryCallback"), DHT_STATUS, INITIALIZING)

\* the publishes that end StepperMotor::begin
motorBeginReport(b) == [b EXCEPT !.h = publishPosition(motorPublishConfig(b.h))]

\* StepperMotor::begin
motorBegin(b) ==
    motorBeginReport(
        subscribeIn(
            subscribeIn(
                subscribeIn(
                    subscribeIn(
                        subscribeIn(
                            [b EXCEPT !.h.motor.dirPin = FALSE, !.h.motor.stepPin = FALSE,
                                      !.h.log = Append(Append(@, WriteEvent("dir", FALSE)),
                                                       WriteEvent("step", FALSE))],
                            MOTOR_ROTATE, "motor.messageCallback"),
                        MOTOR_CONFIG, "motor.configCallback"),
                    MOTOR_CALIBRATE, "motor.calibrateCallback"),
                MOTOR_HOME, "motor.homeCallback"),
            MOTOR_POSITION_GET, "motor.positionCallback"))

\* MoistureSensor::begin up to the start of the AS7341
moistureBeginLed(b) ==
    publishIn(
        subscribeIn(
            subscribeIn([b EXCEPT !.h = setIRLED(b.h, FALSE)],
                        IRLED_CONTROL, "irledControlCallback"),
            IRLED_GET, "irledGetCallback"),
        IRLED_STATUS, OFF)

\* MoistureSensor::begin after _sensor.begin() returned true
moistureBeginSensor(b) ==
    publishIn(
        subscribeIn(
            subscribeIn(
                subscribeIn(b, MOISTURE_MEASURE, "measureCallback"),
                MOISTURE_CALIBRATE, "calibrateCallback"),
            MOISTURE_CONFIG, "configCallback"),
        MOISTURE_STATUS, READY)

\* MoistureSensor::begin after _sensor.begin() returned false
moistureBeginNoSensor(b) ==
    publishIn([b EXCEPT !.h = publishError(b.h, ERR_SENSOR_NOT_FOUND)],
              MOISTURE_STATUS, SENSOR_ERROR)

\* faulty variant: the handlers of the moisture topics are registered
\* whether the sensor started or not
moistureBeginAlwaysRegisters(b, sensorFound) ==
    IF sensorFound THEN moistureBeginSensor(moistureBeginLed(b))
    ELSE moistureBeginNoSensor(moistureBeginSensor(moistureBeginLed(b)))

\* MoistureSensor::begin; sensorFound is what _sensor.begin() returns
moistureBegin(b, sensorFound) ==
    IF sensorFound THEN moistureBeginSensor(moistureBeginLed(b))
    ELSE moistureBeginNoSensor(moistureBeginLed(b))

\* begin() of the component
beginOf(component, b, sensorFound) ==
    CASE component = "fan" -> fanBegin(b)
      [] component = "heater" -> heaterBegin(b)
      [] component = "dht" -> dhtBegin(b)
      [] component = "motor" -> motorBegin(b)
      [] component = "moisture" -> moistureBegin(b, sensorFound)

\* the components whose begin() has been called
Begun == {log[i].component : i \in {k \in 1 .. Len(log) : log[k].e = "begin"}}

\* after the constructors of the bus and of every component
InitBegin ==
    /\ subscriptions = EmptyTable
    /\ receiveBuffer = <<>>
    /\ serialIn = <<>>
    /\ irledState = FALSE
    /\ irledPin = FALSE
    /\ millis = 0
    /\ lastMeasurementTime = 0
    /\ gain = AS7341_GAIN_128X
    /\ integrationTime = 100
    /\ calibration = [dryBaseline |-> 0, wetBaseline |-> 0, timestamp |-> 0, isValid |-> FALSE]
    /\ lastValidTime = -1
    /\ calibrated = {}
    /\ fan = [currentSpeed |-> 0, pin |-> 0]
    /\ heater = [currentPower |-> 0, pin |-> 0]
    /\ motor = InitialMotor
    /\ intBits \in {16, 32}
    /\ line = <<>>
    /\ log = <<>>
    /\ last = Event("init", <<>>, <<>>, TRUE, <<>>)
    /\ events = 0

\* setup() calls begin() of a component that has not been started; the
\* AS7341 is found or not
Begin ==
    \E component \in Components, sensorFound \in BOOLEAN :
        /\ component \notin Begun
        /\ (component # "moisture" => sensorFound)
        /\ \E b \in {beginOf(component,
                             [subs |-> subscriptions, ok |-> TRUE,
                              h |-> [Handlers(<<>>) EXCEPT
                                         !.log = Append(@, BeginEvent(component))]],
                             sensorFound)} :
               /\ subscriptions' = b.subs
               /\ Adopt(b.h, <<>>)
        /\ UNCHANGED <<receiveBuffer, serialIn, line, last, events>>

NextBegin == Begin

\* the components started one after the other, in any order
SpecBegin == InitBegin /\ [][NextBegin]_vars

\* ------------------------------------------------------------ reading the log

IsRead(x) == x.e = "read"
IsCall(x) == x.e = "call"
IsSend(x) == x.e = "send"
IsAttempt(x) == x.e = "attempt"
IsReturn(x) == x.e = "return"
IsGain(x) == x.e = "gain"
Calls(evs) == SelectSeq(evs, IsCall)
Sends(evs) == SelectSeq(evs, IsSend)

ReadIdx == {i \in 1 .. Len(log) : IsRead(log[i])}
\* the reads of a line terminator
TermIdx == {i \in ReadIdx : log[i].c = LF \/ log[i].c = CR}

\* what the read at index i caused: the events up to the next read
Effects(i) ==
    LET later == {j \in ReadIdx : j > i}
        next == IF later = {} THEN Len(log) + 1
                ELSE CHOOSE j \in later : \A k \in later : j <= k
    IN  SubSeq(log, i + 1, next - 1)

PrevTerm(i) ==
    LET earlier == {j \in TermIdx : j < i}
    IN  IF earlier = {} THEN 0 ELSE CHOOSE j \in earlier : \A k \in earlier : k <= j

ReadBytes(evs) ==
    LET r == SelectSeq(evs, IsRead) IN [k \in 1 .. Len(r) |-> r[k].c]

\* the inbound line the terminator read at index i ends: every byte the host
\* sent since the terminator before it
LineAt(i) ==
    (IF PrevTerm(i) = 0 THEN last.line0 ELSE <<>>)
        \o ReadBytes(SubSeq(log, PrevTerm(i) + 1, i - 1))

\* the terminator that follows the one at index i, or 0
NextTerm(i) ==
    LET later == {j \in TermIdx : j > i}
    IN  IF later = {} THEN 0 ELSE CHOOSE j \in later : \A k \in later : j <= k

\* a line as the data model reads it: topic before the first ':', payload after
FirstColon(ln) == CHOOSE i \in 1 .. Len(ln) : ln[i] = COLON /\ \A j \in 1 .. (i - 1) : ln[j] # COLON
HasDelimiter(ln) == \E i \in 1 .. Len(ln) : ln[i] = COLON
LineTopic(ln) == SubSeq(ln, 1, FirstColon(ln) - 1)
LinePayload(ln) == SubSeq(ln, FirstColon(ln) + 1, Len(ln))
Fits(ln) == Len(ln) <= MAX_MESSAGE_LENGTH - 1
WellFormed(ln) ==
    /\ HasDelimiter(ln)
    /\ Len(LineTopic(ln)) >= 1
    /\ Len(LineTopic(ln)) <= MAX_TOPIC_LENGTH - 1
Malformed(ln) == ln # <<>> /\ ~WellFormed(ln)

ActiveSlots(subs, topic) == {i \in Slots : subs[i].active /\ subs[i].topic = topic}
IsSubscribed(subs, topic) == ActiveSlots(subs, topic) # {}

\* the callbacks a message for topic must reach, in slot order
RECURSIVE ExpectedCallsFrom(_, _, _, _)
ExpectedCallsFrom(i, subs, topic, payload) ==
    IF i >= MAX_SUBSCRIPTIONS THEN <<>>
    ELSE (IF subs[i].active /\ subs[i].topic = topic
          THEN <<CallEvent(i, subs[i].callback, topic, payload)>> ELSE <<>>)
         \o ExpectedCallsFrom(i + 1, subs, topic, payload)
ExpectedCalls(subs, topic, payload) == ExpectedCallsFrom(0, subs, topic, payload)

NoLineEnd(s) == \A i \in 1 .. Len(s) : s[i] # LF /\ s[i] # CR
\* the text of a payload argument (a null pointer sends nothing)
PayloadText(p) == IF p = NULLSTR THEN <<>> ELSE p
IsEmptyTopic(t) == t = NULLSTR \/ t = <<>>

\* ------------------------------------------------------------ properties

\* an echoed publish has been read in full
RoundTripDone == last.op = "echo" /\ serialIn = <<>>

OneSubscriptionPerTopic ==
    /\ \A i, j \in Slots :
          (subscriptions[i].active /\ subscriptions[j].active
              /\ subscriptions[i].topic = subscriptions[j].topic) => i = j
    /\ (last.op = "subscribe" /\ last.ret) =>
          /\ Cardinality(ActiveSlots(subscriptions, last.topic)) = 1
          /\ \A i \in ActiveSlots(subscriptions, last.topic) :
                subscriptions[i].callback = last.arg

\* irled/get, subscribed by begin() with irledGetCallback, was subscribed again
\* with another callback
ResubscribeWitness ==
    /\ last.op = "subscribe" /\ last.ret
    /\ last.topic = IRLED_GET /\ last.arg = "irledControlCallback"
    /\ subscriptions[0].active /\ subscriptions[0].topic = IRLED_CONTROL
    /\ subscriptions[1] = [topic |-> IRLED_GET, callback |-> "irledControlCallback", active |-> TRUE]

TableFull(subs) == \A i \in Slots : subs[i].active

\* C3: subscribe fails exactly for an empty topic, a topic of more than 23
\* characters, an absent callback, or a new topic with all 16 slots active; a
\* failed call leaves the table unchanged; a topic already subscribed can be
\* subscribed again when the table is full.
SubscribeContract ==
    [][(last'.op = "subscribe" /\ events' = events + 1) =>
        LET t == last'.topic
            cb == last'.arg
            fails == \/ IsEmptyTopic(t)
                     \/ Len(t) > MAX_TOPIC_LENGTH - 1
                     \/ cb = NULLCB
                     \/ (~IsSubscribed(subscriptions, t) /\ TableFull(subscriptions))
        IN  /\ last'.ret = ~fails
            /\ fails => subscriptions' = subscriptions
            /\ ~fails => IsSubscribed(subscriptions', t)]_vars

\* a valid new topic was refused because all 16 slots are active
TableFullWitness ==
    /\ last.op = "subscribe" /\ ~last.ret
    /\ last.topic = TOPIC_X /\ last.arg = "irledGetCallback"
    /\ TableFull(subscriptions)
    /\ ~IsSubscribed(subscriptions, TOPIC_X)

ClearedSlot == [topic |-> <<>>, callback |-> NULLCB, active |-> FALSE]

\* C4: unsubscribe(T) returns true exactly when T has an active subscription;
\* it clears that slot and no other; a topic without subscription leaves the
\* table unchanged; and a callback is only ever invoked through a slot that is
\* active for the message's topic, so none is invoked for T until T is
\* subscribed again.
UnsubscribeContract ==
    /\ [](\A k \in 1 .. Len(log) :
            IsCall(log[k]) =>
                /\ subscriptions[log[k].slot].active
                /\ subscriptions[log[k].slot].topic = log[k].topic)
    /\ [][(last'.op = "unsubscribe" /\ events' = events + 1) =>
            LET t == last'.topic
                hits == ActiveSlots(subscriptions, t)
            IN  /\ last'.ret = (hits # {})
                /\ hits = {} => subscriptions' = subscriptions
                /\ hits # {} =>
                      /\ \E i \in hits : subscriptions' = [subscriptions EXCEPT ![i] = ClearedSlot]
                      /\ ~IsSubscribed(subscriptions', t)]_vars

\* after begin(), irled/get was unsubscribed and a message for it was read:
\* no callback ran
UnsubscribedWitness ==
    /\ last.op = "send" /\ serialIn = <<>>
    /\ last.arg = IRLED_GET \o <<COLON, LF>>
    /\ last.buf0 = <<>>
    /\ subscriptions[0].active /\ subscriptions[0].topic = IRLED_CONTROL
    /\ subscriptions[1] = ClearedSlot
    /\ ~IsSubscribed(subscriptions, IRLED_GET)
    /\ Calls(log) = <<>>

PublishOps == {"publish", "publishInt", "publishFloat", "publishBool"}

\* the decimal text of the numeric and boolean payloads published
PublishedText(ev) ==
    CASE ev.op = "publish" -> PayloadText(ev.arg)
      [] ev.op = "publishInt" ->
            (CASE ev.arg[1] = 0 -> <<"0">>
               [] ev.arg[1] = 1 -> <<"1">>
               [] ev.arg[1] = -12 -> <<"-", "1", "2">>
               [] ev.arg[1] = 255 -> <<"2", "5", "5">>)
      [] ev.op = "publishFloat" ->
            (CASE ev.arg = <<23456, 2>> -> <<"2", "3", ".", "4", "6">>
               [] ev.arg = <<-1500, 1>> -> <<"-", "1", ".", "5">>
               [] ev.arg = <<4, 2>> -> <<"0", ".", "0", "0">>
               [] ev.arg = <<1996, 2>> -> <<"2", ".", "0", "0">>
               [] ev.arg = <<700, 0>> -> <<"1">>)
      [] ev.op = "publishBool" -> (IF ev.arg[1] THEN TRUE_TEXT ELSE FALSE_TEXT)

\* C5: publish returns false and sends nothing for an empty topic or a topic
\* containing ':'; for every other topic it returns true and sends exactly
\* topic, ':', payload text, LF, in each of the four overloads.
PublishRejectsBadTopic ==
    last.op \in PublishOps =>
        IF IsEmptyTopic(last.topic) \/ HasColon(last.topic)
        THEN ~last.ret /\ last.out = <<>>
        ELSE last.ret /\ last.out = last.topic \o <<COLON>> \o PublishedText(last) \o <<LF>>

\* C6: a line of more than 63 bytes is discarded in full: its terminator
\* invokes no callback, whatever follows the point of overflow, and the next
\* complete line is dispatched normally.
OverflowLineDiscarded ==
    \A i \in TermIdx :
        ~Fits(LineAt(i)) =>
            /\ Effects(i) = <<>>
            /\ LET j == NextTerm(i)
               IN  (j # 0 /\ WellFormed(LineAt(j)) /\ Fits(LineAt(j))) =>
                       Calls(Effects(j)) =
                           ExpectedCalls(subscriptions, LineTopic(LineAt(j)), LinePayload(LineAt(j)))

\* C7: LF and CR both end a message: a terminator after an empty line
\* dispatches nothing, a well-formed line for a subscribed topic is dispatched
\* exactly once whichever terminator ends it, and no payload handed to a
\* callback holds a CR or LF.
TerminatorEndsMessage ==
    /\ \A i \in TermIdx :
          LET ln == LineAt(i)
          IN  /\ ln = <<>> => Effects(i) = <<>>
              /\ (WellFormed(ln) /\ Fits(ln) /\ IsSubscribed(subscriptions, LineTopic(ln)))
                    => Len(Calls(Effects(i))) = 1
    /\ \A k \in 1 .. Len(log) : IsCall(log[k]) => NoLineEnd(log[k].payload)

\* irled/control:on ended by CR LF was dispatched once
CrLfWitness ==
    /\ last.op = "send" /\ serialIn = <<>>
    /\ last.arg = IRLED_CONTROL \o <<COLON>> \o ON \o <<CR, LF>>
    /\ last.line0 = <<>>
    /\ Cardinality(TermIdx) = 2
    /\ Len(Calls(log)) = 1
    /\ irledState

\* C8: a line without ':', with an empty topic or with a topic of more than 23
\* characters is dropped: its terminator invokes no callback and sends
\* nothing, the buffer is empty afterwards, the table is unchanged and the
\* next line is processed normally.
MalformedLineDropped ==
    /\ \A i \in TermIdx :
          Malformed(LineAt(i)) =>
              /\ Effects(i) = <<>>
              /\ LET j == NextTerm(i)
                 IN  (j # 0 /\ WellFormed(LineAt(j)) /\ Fits(LineAt(j))) =>
                         Calls(Effects(j)) =
                             ExpectedCalls(subscriptions, LineTopic(LineAt(j)), LinePayload(LineAt(j)))
    /\ line = <<>> => receiveBuffer = <<>>

\* the same for the malformed lines that fit the receive buffer
MalformedFittingLineDropped ==
    /\ \A i \in TermIdx :
          (Malformed(LineAt(i)) /\ Fits(LineAt(i))) =>
              /\ Effects(i) = <<>>
              /\ LET j == NextTerm(i)
                 IN  (j # 0 /\ WellFormed(LineAt(j)) /\ Fits(LineAt(j))) =>
                         Calls(Effects(j)) =
                             ExpectedCalls(subscriptions, LineTopic(LineAt(j)), LinePayload(LineAt(j)))
    /\ line = <<>> => receiveBuffer = <<>>

\* C9: a well-formed line is split at its first ':' and reaches the callback of
\* every active slot of that topic and of no other slot; no inbound message
\* invokes more than one callback.
DispatchMatchesTopic ==
    \A i \in TermIdx :
        LET ln == LineAt(i)
        IN  /\ (WellFormed(ln) /\ Fits(ln)) =>
                  Calls(Effects(i)) = ExpectedCalls(subscriptions, LineTopic(ln), LinePayload(ln))
            /\ Len(Calls(Effects(i))) <= 1

\* irled/get:x:y reached irledGetCallback with the payload x:y
ColonPayloadWitness ==
    /\ last.op = "send" /\ serialIn = <<>>
    /\ last.line0 = <<>>
    /\ \E k \in 1 .. Len(log) :
          /\ IsCall(log[k])
          /\ log[k].callback = "irledGetCallback"
          /\ log[k].topic = IRLED_GET
          /\ log[k].payload = <<"x", COLON, "y">>

IsSuffix(s, t) == Len(s) <= Len(t) /\ SubSeq(t, Len(t) - Len(s) + 1, Len(t)) = s

\* C10: a callback runs, and its publishes go out, right after the terminator
\* of its message is read and before any further byte is read: every callback
\* invocation and every message sent follows, with no read in between, the
\* read of the terminator of the line it belongs to.
DispatchSynchronous ==
    /\ \A k \in 1 .. Len(log) :
          ~IsRead(log[k]) =>
              /\ k > 1
              /\ IsRead(log[k - 1]) => (k - 1 \in TermIdx /\ IsCall(log[k]))
    /\ \A i \in TermIdx :
          \A k \in 1 .. Len(Calls(Effects(i))) :
              LET cl == Calls(Effects(i))[k]
              IN  IsSuffix(cl.topic \o <<COLON>> \o cl.payload, LineAt(i))

\* two commands arrived back to back: the reply to the first was sent before
\* the second was read and dispatched
RepliesInOrderWitness ==
    /\ last.op = "send" /\ serialIn = <<>>
    /\ Len(Calls(log)) = 2
    /\ Len(Sends(log)) = 2
    /\ \E k, m \in 1 .. Len(log) :
          /\ k < m
          /\ IsSend(log[k]) /\ log[k].bytes = IRLED_STATUS \o <<COLON>> \o ON \o <<LF>>
          /\ IsRead(log[k + 1])
          /\ IsCall(log[m]) /\ log[m].callback = "irledGetCallback"

\* ------------------------------------------------------------ measure()

\* the message publishError(error) puts on the link
ErrorMessage(error) ==
    MOISTURE_ERROR \o <<COLON>> \o JSON_ERROR_OPEN \o error \o JSON_ERROR_CLOSE \o <<LF>>

SensorReads(evs) == SelectSeq(evs, IsSensor)
Attempts(evs) == SelectSeq(evs, IsAttempt)
SentMessages(evs) == [k \in 1 .. Len(Sends(evs)) |-> Sends(evs)[k].bytes]

\* the topic of a message on the link
MessageTopic(bytes) == SubSeq(bytes, 1, FirstColon(bytes) - 1)

\* C11: a measure() call made less than MIN_MEASUREMENT_INTERVAL after the
\* accepted call before it (whose start time is in lastMeasurementTime)
\* returns an invalid result, reads the sensor not at all, leaves the IR LED,
\* the gain, the calibration data and lastMeasurementTime as they were, and
\* publishes the rate-limit error on moisture/error and nothing else.
RateLimitedMeasureTouchesNothing ==
    [][ (last'.op = "measure" /\ events' = events + 1
         /\ millis - lastMeasurementTime < MIN_MEASUREMENT_INTERVAL)
        => /\ ~last'.ret.isValid
           /\ SensorReads(log') = <<>>
           /\ irledState' = irledState /\ irledPin' = irledPin
           /\ gain' = gain /\ integrationTime' = integrationTime
           /\ calibration' = calibration
           /\ lastMeasurementTime' = lastMeasurementTime
           /\ SentMessages(log') = <<ErrorMessage(ERR_TOO_FREQUENT)>> ]_vars

\* a second measure() was rejected shortly after an accepted one that had
\* left the IR LED off, or after the LED was switched on again
RateLimitedWitness ==
    /\ last.op = "measure"
    /\ lastMeasurementTime > 0
    /\ millis - lastMeasurementTime < MIN_MEASUREMENT_INTERVAL
    /\ SentMessages(log) = <<ErrorMessage(ERR_TOO_FREQUENT)>>

\* the measure() call just made was rejected by the rate limit
RateLimited(evs) ==
    \E k \in 1 .. Len(Sends(evs)) : Sends(evs)[k].bytes = ErrorMessage(ERR_TOO_FREQUENT)

\* C12: measure() is rejected by the rate limit exactly when less than
\* MIN_MEASUREMENT_INTERVAL has elapsed since the last measure() that returned
\* a valid result; a call that failed after its retries starts no new window.
RateLimitCountsFromLastSuccess ==
    [][ (last'.op = "measure" /\ events' = events + 1)
        => (RateLimited(log')
            <=> (lastValidTime >= 0 /\ millis - lastValidTime < MIN_MEASUREMENT_INTERVAL)) ]_vars

\* the returns of measure() in the log
MeasureReturns == {i \in 1 .. Len(log) : IsReturn(log[i]) /\ log[i].op = "measure"}

\* the events of the method that returns at index i: those since the handler
\* was called or the method before it returned
SegmentStart(i) ==
    LET earlier == {j \in 1 .. (i - 1) : IsCall(log[j]) \/ IsReturn(log[j])}
    IN  IF earlier = {} THEN 0 ELSE CHOOSE j \in earlier : \A k \in earlier : k <= j
Segment(i) == SubSeq(log, SegmentStart(i) + 1, i - 1)

\* the measure() that returns at index i passed the rate limit
PassedRateLimit(i) == Attempts(Segment(i)) # <<>>

\* C13 as stated: on return from every measure() call, on every exit path,
\* the IR LED is off (pin low and recorded state false).
LedOffAfterEveryMeasure ==
    \A i \in MeasureReturns : ~log[i].irledState /\ ~log[i].irledPin

\* C13 amended: on return from every measure() call that the rate limit did
\* not reject (valid result or retries exhausted) the IR LED is off.
LedOffAfterAcceptedMeasure ==
    \A i \in MeasureReturns :
        PassedRateLimit(i) => ~log[i].irledState /\ ~log[i].irledPin

\* the host switched the IR LED on and the measure() that followed ran its
\* attempts and returned
LedOnBeforeMeasureWitness ==
    /\ last.op = "send"
    /\ last.arg = IRLED_ON_COMMAND \o MEASURE_COMMAND
    /\ serialIn = <<>>
    /\ \E i \in MeasureReturns : PassedRateLimit(i) /\ ~log[i].result.isValid
    /\ \E i \in MeasureReturns : \E j \in 1 .. (i - 1) :
           IsSend(log[j]) /\ log[j].bytes = IRLED_STATUS \o <<COLON>> \o ON \o <<LF>>
                          /\ SensorReads(SubSeq(log, 1, j)) = <<>>

\* the index of the first read, attempt or return after index i
NextStage(i) ==
    LET later == {j \in (i + 1) .. Len(log) : IsSensor(log[j]) \/ IsAttempt(log[j]) \/ IsReturn(log[j])}
    IN  CHOOSE j \in later : \A k \in later : j <= k

\* the reads of the sensor made by measure()
MeasureReads ==
    {i \in 1 .. Len(log) : IsSensor(log[i]) /\ \E r \in MeasureReturns : SegmentStart(r) < i /\ i < r}

Saturated(nir) == nir >= 65000

\* C14: a saturated sample ends its attempt as a failed one, so measure()
\* never returns a valid result computed from a saturated sample, and when
\* the gain could not be lowered the 'saturated at minimum gain' error is
\* reported.
SaturatedSampleFailsAttempt ==
    \A i \in MeasureReads :
        Saturated(log[i].outcome)
        => /\ \/ IsAttempt(log[NextStage(i)])
              \/ IsReturn(log[NextStage(i)]) /\ ~log[NextStage(i)].result.isValid
           /\ \/ \E k \in i .. NextStage(i) : IsGain(log[k])
              \/ \E k \in i .. NextStage(i) :
                     IsSend(log[k]) /\ log[k].bytes = ErrorMessage(ERR_SATURATED)

\* C15: every measure() call returns after at most 3 attempts and at most 6
\* reads of the sensor, whatever the starting gain and the sensor outcomes.
MeasureWithinRetryBudget ==
    \A r \in MeasureReturns :
        /\ Len(Attempts(Segment(r))) <= 3
        /\ Len(SensorReads(Segment(r))) <= 6

\* a measure() that used the whole budget: 3 attempts of 2 reads each
FullBudgetWitness ==
    \E r \in MeasureReturns :
        /\ Len(Attempts(Segment(r))) = 3
        /\ Len(SensorReads(Segment(r))) = 6

\* the attempts of the measure() that returns at r, and where each ends
AttemptIdx(r) == {j \in (SegmentStart(r) + 1) .. (r - 1) : IsAttempt(log[j])}
AttemptEnd(j, r) ==
    LET later == {k \in AttemptIdx(r) : k > j}
    IN  IF later = {} THEN r ELSE CHOOSE k \in later : \A m \in later : k <= m
\* the attempt ended without success: a read failed or the gain was reduced
AttemptFailed(j, r) ==
    \E k \in (j + 1) .. (AttemptEnd(j, r) - 1) :
        \/ IsSensor(log[k]) /\ log[k].outcome = FAIL
        \/ IsGain(log[k])
AllAttemptsFailed(r) ==
    /\ Cardinality(AttemptIdx(r)) = 3
    /\ \A j \in AttemptIdx(r) : AttemptFailed(j, r)

\* what the handler does after the method returned at index r
AfterReturn(r) ==
    LET later == {k \in (r + 1) .. Len(log) : IsRead(log[k]) \/ IsCall(log[k]) \/ IsReturn(log[k])}
        stop == IF later = {} THEN Len(log) + 1 ELSE CHOOSE k \in later : \A m \in later : k <= m
    IN  SubSeq(log, r + 1, stop - 1)

Count(messages, m) == Cardinality({k \in 1 .. Len(messages) : messages[k] = m})
OnTopic(messages, topic) ==
    {k \in 1 .. Len(messages) : MessageTopic(messages[k]) = topic}

\* C16: when all 3 attempts of a measure() call end without success, it
\* returns an invalid result and publishes the communication-failure error
\* on moisture/error exactly once, and the moisture/measure handler publishes
\* no moisture/data.
RetriesExhaustedReportsOnce ==
    \A r \in MeasureReturns :
        AllAttemptsFailed(r)
        => /\ ~log[r].result.isValid
           /\ Count(SentMessages(Segment(r)), ErrorMessage(ERR_COMM_FAILED)) = 1
           /\ Cardinality(OnTopic(SentMessages(Segment(r)), MOISTURE_ERROR)) = 1
           /\ OnTopic(SentMessages(AfterReturn(r)), MOISTURE_DATA) = {}

\* a moisture/measure command whose three attempts failed, one of them by a
\* gain reduction
RetriesExhaustedWitness ==
    /\ last.op = "send"
    /\ serialIn = <<>>
    /\ \E r \in MeasureReturns :
           /\ SegmentStart(r) > 0
           /\ AllAttemptsFailed(r)
           /\ \E k \in (SegmentStart(r) + 1) .. (r - 1) : IsGain(log[k])

\* ------------------------------------------------------------ intensity and moisture

\* the two exposures of the method that returns at r: its last two reads
AmbientOf(r) == SensorReads(Segment(r))[Len(SensorReads(Segment(r))) - 1].outcome
CombinedOf(r) == SensorReads(Segment(r))[Len(SensorReads(Segment(r)))].outcome
\* max(combined - ambient, 0)
Reflected(ambient, combined) == IF combined > ambient THEN combined - ambient ELSE 0
ReflectedOf(r) == Reflected(AmbientOf(r), CombinedOf(r))

ValidMeasures == {r \in MeasureReturns : log[r].result.isValid}
\* the successful calibrations of one kind in the log
Calibrations(op) ==
    {r \in 1 .. Len(log) : IsReturn(log[r]) /\ log[r].op = op /\ log[r].result = TRUE}
\* the last of them, whose baseline the state holds
IsLast(r, rs) == r \in rs /\ \A k \in rs : k <= r

\* C17: the reflected intensity used by measure() and by calibration is
\* max(combined - ambient, 0), never negative, and paper is present exactly
\* when reflected > 1.5 * ambient: 100/400 gives 300 and paper, 100/120
\* gives 20 and no paper.
ReflectedIntensityAndPaper ==
    /\ \A r \in ValidMeasures :
           /\ log[r].result.paperPresent <=> (2 * ReflectedOf(r) > 3 * AmbientOf(r))
           /\ (AmbientOf(r) = 100 /\ CombinedOf(r) = 400)
              => (ReflectedOf(r) = 300 /\ log[r].result.paperPresent)
           /\ (AmbientOf(r) = 100 /\ CombinedOf(r) = 120)
              => (ReflectedOf(r) = 20 /\ ~log[r].result.paperPresent)
    /\ \A r \in Calibrations("calibrateDry") :
           IsLast(r, Calibrations("calibrateDry")) => calibration.dryBaseline = ReflectedOf(r)
    /\ \A r \in Calibrations("calibrateWet") :
           IsLast(r, Calibrations("calibrateWet")) => calibration.wetBaseline = ReflectedOf(r)
    /\ calibration.dryBaseline >= 0
    /\ calibration.wetBaseline >= 0

\* a measurement of ambient 100 and combined 400, and one at the threshold
PaperDetectedWitness ==
    \E r \in ValidMeasures :
        AmbientOf(r) = 100 /\ CombinedOf(r) = 400 /\ log[r].result.paperPresent

\* reflected intensities the moisture formula is tried on in every state
IntensitySamples == {0, 1, 299, 300, 301, 900, 1499, 1500, 1501, 2000, 64900, 65535}

\* C18: every valid measurement result has moisturePercent within 0..100
\* (thousandths: 0..100000), for every reflected intensity and calibration
\* state, and exactly 0 when paper is not present.
ValidMoistureInRange ==
    /\ \A r \in ValidMeasures :
           /\ log[r].result.moisturePercent >= 0
           /\ log[r].result.moisturePercent <= 100000
           /\ ~log[r].result.paperPresent => log[r].result.moisturePercent = 0
    /\ \A I \in IntensitySamples :
           calculateMoisture(calibration, I) >= 0 /\ calculateMoisture(calibration, I) <= 100000

\* paper measured beyond both ends of the scale and within it
MoistureClampedWitness ==
    /\ \E r \in ValidMeasures : log[r].result.paperPresent /\ ReflectedOf(r) > 1500
    /\ calculateMoisture(calibration, 0) = 100000

\* m (thousandths) is clamp(100 * numerator / denominator, 0, 100) cut after
\* the third decimal place, for denominator > 0
IsClampedPercent(m, numerator, denominator) ==
    IF numerator <= 0 THEN m = 0
    ELSE IF numerator >= denominator THEN m = 100000
    ELSE LET whole == m \div 1000
             rest == 100 * numerator - whole * denominator
         IN  /\ m >= 0 /\ m < 100000
             /\ rest >= 0 /\ rest < denominator
             /\ (m % 1000) * denominator <= 1000 * rest
             /\ 1000 * rest < ((m % 1000) + 1) * denominator

\* the measurements made with the calibration data the state holds: no
\* calibration came after them
CurrentMeasures ==
    {r \in ValidMeasures :
        \A k \in Calibrations("calibrateDry") \cup Calibrations("calibrateWet") : k < r}

\* C19: with valid calibration and dry baseline D > wet baseline W the
\* moisture for reflected intensity I is clamp(100 * (D - I) / (D - W), 0, 100);
\* D=1500, W=300, I=900 gives 50.0.
CalibratedMoistureFormula ==
    (calibration.isValid /\ calibration.dryBaseline > calibration.wetBaseline)
    => /\ \A I \in IntensitySamples :
              IsClampedPercent(calculateMoisture(calibration, I),
                               calibration.dryBaseline - I,
                               calibration.dryBaseline - calibration.wetBaseline)
       /\ \A r \in CurrentMeasures :
              log[r].result.paperPresent
              => IsClampedPercent(log[r].result.moisturePercent,
                                  calibration.dryBaseline - ReflectedOf(r),
                                  calibration.dryBaseline - calibration.wetBaseline)
       /\ (calibration.dryBaseline = 1500 /\ calibration.wetBaseline = 300)
          => /\ calculateMoisture(calibration, 900) = 50000
             /\ \A r \in CurrentMeasures :
                    (log[r].result.paperPresent /\ ReflectedOf(r) = 900)
                    => log[r].result.moisturePercent = 50000

\* calibrated with 1500 and 300, then paper of reflected intensity 900 measured
CalibratedExampleWitness ==
    /\ calibration.isValid
    /\ calibration.dryBaseline = 1500
    /\ calibration.wetBaseline = 300
    /\ \E r \in CurrentMeasures :
           log[r].result.paperPresent /\ ReflectedOf(r) = 900
           /\ log[r].result.moisturePercent = 50000

\* C20: when calibration is not valid or the baselines are degenerate
\* (D <= W, or D - W not above 0.1) the moisture for reflected intensity I is
\* clamp(100 * (1500 - I) / (1500 - 300), 0, 100); without calibration I=300
\* gives 100.0.
DefaultMoistureFormula ==
    (\/ ~calibration.isValid
     \/ calibration.dryBaseline <= calibration.wetBaseline
     \/ 10 * (calibration.dryBaseline - calibration.wetBaseline) <= 1)
    => /\ \A I \in IntensitySamples :
              IsClampedPercent(calculateMoisture(calibration, I), 1500 - I, 1500 - 300)
       /\ \A r \in CurrentMeasures :
              log[r].result.paperPresent
              => IsClampedPercent(log[r].result.moisturePercent, 1500 - ReflectedOf(r), 1500 - 300)
       /\ calculateMoisture(calibration, 300) = 100000

\* valid calibration data with the dry baseline below the wet one, and paper
\* measured with it
DegenerateCalibrationWitness ==
    /\ calibration.isValid
    /\ calibration.dryBaseline < calibration.wetBaseline
    /\ \E r \in CurrentMeasures :
           log[r].result.paperPresent /\ ReflectedOf(r) = 900
           /\ log[r].result.moisturePercent = 50000

\* ------------------------------------------------------------ calibration store

CalibrationOps == {"calibrateDry", "calibrateWet"}

\* C21: calibration validity is false at start, and isValid is true only if
\* calibrateDry and calibrateWet have each returned true at least once since
\* start.
ValidOnlyAfterBothCalibrations ==
    /\ (events = 0 => ~calibration.isValid)
    /\ calibration.isValid => calibrated = CalibrationOps

\* both calibrations succeeded, by direct calls, and the data is valid
BothCalibratedWitness ==
    /\ calibration.isValid
    /\ events = 2
    /\ last.op \in CalibrationOps

\* the returns of the calibration methods in the log
CalibrationReturns == {i \in 1 .. Len(log) : IsReturn(log[i]) /\ log[i].op \in CalibrationOps}
\* a read of the sensor failed during the method that returns at index i
ReadFailed(i) ==
    \E k \in 1 .. Len(SensorReads(Segment(i))) : SensorReads(Segment(i))[k].outcome = FAIL
ReadError(op) == IF op = "calibrateDry" THEN ERR_DRY_READ ELSE ERR_WET_READ

\* what a calibration whose read failed returns, publishes and leaves the
\* IR LED in
FailedCalibrationsReported ==
    \A i \in CalibrationReturns :
        ReadFailed(i)
        => /\ log[i].result = FALSE
           /\ SentMessages(SelectSeq(Segment(i), LAMBDA x : IsSend(x)
                                                  /\ MessageTopic(x.bytes) = MOISTURE_ERROR))
              = <<ErrorMessage(ReadError(log[i].op))>>
           /\ OnTopic(SentMessages(Segment(i)), MOISTURE_CALIBRATION) = {}
           /\ ~log[i].irledState
           /\ ~log[i].irledPin

\* C22: a calibrateDry() or calibrateWet() call that fails to read the sensor
\* in either exposure returns false, publishes an error on moisture/error and
\* leaves dryBaseline, wetBaseline, timestamp and isValid unchanged, with the
\* IR LED off on return.
CalibrationReadFailure ==
    [][ /\ FailedCalibrationsReported'
        /\ (last'.op \in CalibrationOps /\ events' = events + 1 /\ last'.ret = FALSE)
           => calibration' = calibration
        /\ (CalibrationReturns' # {} /\ \A i \in CalibrationReturns' : ReadFailed(i)')
           => calibration' = calibration ]_vars

\* after a successful wet calibration the second exposure of a dry
\* calibration failed
CalibrationReadFailureWitness ==
    /\ last.op = "calibrateDry"
    /\ last.arg = <<100, FAIL>>
    /\ last.ret = FALSE
    /\ calibration.wetBaseline > 0
    /\ calibration.dryBaseline = 0

\* the handlers called in the log
CalledBacks == {log[i].callback : i \in {k \in 1 .. Len(log) : IsCall(log[k])}}

\* the baseline a step leaves: that of the last successful calibration of the
\* kind in the log, the one before the step when there is none
BaselinesFromCalibrations ==
    /\ \A r \in Calibrations("calibrateDry") :
           IsLast(r, Calibrations("calibrateDry")) => calibration.dryBaseline = ReflectedOf(r)
    /\ \A r \in Calibrations("calibrateWet") :
           IsLast(r, Calibrations("calibrateWet")) => calibration.wetBaseline = ReflectedOf(r)

\* C23: calibration data (dryBaseline, wetBaseline, timestamp, isValid) is
\* changed only by calibrateDry and calibrateWet: measure() with its gain
\* reduction, moisture/config changes of gain or integration time and the
\* IR LED commands leave the four fields unchanged.
CalibrationChangedOnlyByCalibration ==
    [][ /\ CalibratedIn(log') = {} => calibration' = calibration
        /\ "calibrateDry" \notin CalibratedIn(log')
           => calibration'.dryBaseline = calibration.dryBaseline
        /\ "calibrateWet" \notin CalibratedIn(log')
           => calibration'.wetBaseline = calibration.wetBaseline
        /\ BaselinesFromCalibrations' ]_vars

\* calibrated with 1500 and 300 by moisture/calibrate, then gain and
\* integration time changed by moisture/config
ConfigAfterCalibrationWitness ==
    /\ calibration.isValid
    /\ calibration.dryBaseline = 1500
    /\ calibration.wetBaseline = 300
    /\ gain = AS7341_GAIN_512X
    /\ integrationTime = 29
    /\ CalledBacks = {"configCallback"}

\* ------------------------------------------------------------ gain

\* the gain levels from the highest to the lowest
GainOrder ==
    << AS7341_GAIN_512X, AS7341_GAIN_256X, AS7341_GAIN_128X, AS7341_GAIN_64X,
       AS7341_GAIN_32X, AS7341_GAIN_16X, AS7341_GAIN_8X, AS7341_GAIN_4X,
       AS7341_GAIN_2X, AS7341_GAIN_1X, AS7341_GAIN_0_5X >>
Place(g) == CHOOSE i \in 1 .. Len(GainOrder) : GainOrder[i] = g
MinimumGain == GainOrder[Len(GainOrder)]

\* the gain in effect before event k of evs, g0 being the gain before evs
GainBefore(evs, k, g0) ==
    LET earlier == {j \in 1 .. (k - 1) : IsGain(evs[j])}
    IN  IF earlier = {} THEN g0
        ELSE evs[CHOOSE j \in earlier : \A m \in earlier : m <= j].gain
IsSaturatedRead(x) == IsSensor(x) /\ x.outcome # FAIL /\ x.outcome >= SATURATION_THRESHOLD

\* C28: within measure() each saturated sample detected while the gain is
\* above the minimum lowers the gain by exactly one level in the order 512X,
\* 256X, ..., 1X, 0.5X; at the minimum the gain stays; every other outcome
\* leaves the gain unchanged; measure() never raises the gain and lowers it
\* by at most 3 levels in one call.
GainStepsDownOnSaturation ==
    [][ (last'.op = "measure" /\ events' = events + 1)
        => /\ \A k \in 1 .. Len(log') :
                  /\ (IsSaturatedRead(log'[k]) /\ GainBefore(log', k, gain) # MinimumGain)
                     => /\ k < Len(log')
                        /\ IsGain(log'[k + 1])
                        /\ Place(log'[k + 1].gain) = Place(GainBefore(log', k, gain)) + 1
                  /\ IsGain(log'[k])
                     => /\ k > 1
                        /\ IsSaturatedRead(log'[k - 1])
                        /\ GainBefore(log', k, gain) # MinimumGain
           /\ gain' = GainBefore(log', Len(log') + 1, gain)
           /\ Place(gain') >= Place(gain)
           /\ Place(gain') - Place(gain) <= 3 ]_vars

\* a measure() that started at 512X and met three saturated samples
ThreeGainStepsWitness ==
    /\ last.op = "measure"
    /\ Len(SelectSeq(log, IsGain)) = 3
    /\ gain = AS7341_GAIN_64X

\* ------------------------------------------------------------ validity of the calibration data

BothBaselinesSet(cal) == cal.dryBaseline # 0 /\ cal.wetBaseline # 0

\* C29: after any sequence of calibrateDry/calibrateWet calls with any
\* measured intensities (0 included), isValid is true exactly when both
\* baselines differ from their initial value 0.
ValidIffBothBaselinesSet == calibration.isValid <=> BothBaselinesSet(calibration)

\* ------------------------------------------------------------ configuration

SupportedGainValues == {0, 1, 2, 4, 8, 16, 32, 64, 128, 256, 512}

\* C30: a moisture/config command whose gain value is not one of 0, 1, 2, 4,
\* 8, 16, 32, 64, 128, 256, 512 publishes an error on moisture/error and
\* leaves the sensor gain unchanged.
UnsupportedGainRejected ==
    [][ (/\ last.op = "send"
         /\ serialIn # <<>>
         /\ \E v \in ConfigGainValues \ SupportedGainValues : last.arg = ConfigGainCommand(v))
        => /\ gain' = gain
           /\ OnTopic(SentMessages(log'), MOISTURE_ERROR) # {} ]_vars

\* ------------------------------------------------------------ fan speed and heater power

\* a decimal integer: digits, after '-' when negative
IsDecimalInteger(payload) ==
    LET body == IF payload # <<>> /\ Head(payload) = "-" THEN Tail(payload) ELSE payload
    IN  body # <<>> /\ \A i \in 1 .. Len(body) : IsDigit(body[i])

\* min(max(v, 0), 255) for the integer v the text denotes, however large
ClampedValue(payload) ==
    LET neg == Head(payload) = "-"
        r == StrtolDigits(IF neg THEN Tail(payload) ELSE payload, 0, FALSE)
    IN  IF neg THEN 0 ELSE IF r.over \/ r.value > 255 THEN 255 ELSE r.value

\* the calls of the callback cb with a decimal integer
LevelCalls(cb) ==
    {i \in 1 .. Len(log) : /\ log[i].e = "call"
                           /\ log[i].callback = cb
                           /\ IsDecimalInteger(log[i].payload)}

\* the call writes the clamped value to the fan and publishes it
FanSpeedClamped ==
    \A i \in LevelCalls("fan.speedCallback") :
        LET c == ClampedValue(log[i].payload)
        IN  /\ i + 2 <= Len(log)
            /\ log[i + 1] = WriteEvent("fan", c)
            /\ log[i + 2] = SendEvent(publish(FAN_STATUS, itoa(c)).out)

\* the call writes the clamped value to the heater and publishes it
HeaterPowerClamped ==
    \A i \in LevelCalls("heater.powerCallback") :
        LET c == ClampedValue(log[i].payload)
        IN  /\ i + 3 <= Len(log)
            /\ log[i + 2] = WriteEvent("heater", c)
            /\ log[i + 3] = SendEvent(publish(HEATER_STATUS, itoa(c)).out)

\* C27: for every decimal integer v received on fan/speed or heater/power,
\* the value applied and published is min(max(v, 0), 255), also when v is
\* outside the range of int; the fan speed and the heater power are always
\* in 0..255.
LevelsClampedToByte ==
    /\ FanSpeedClamped
    /\ HeaterPowerClamped
    /\ fan.currentSpeed \in 0 .. 255
    /\ heater.currentPower \in 0 .. 255

\* ------------------------------------------------------------ commands during a rotation

ArriveIdx == {i \in 1 .. Len(log) : log[i].e = "arrive"}

\* the topic of a command line
CommandTopic(bytes) == SubSeq(bytes, 1, strchr(bytes, COLON))

\* the motor commands that reached the port while the motor was turning
ArrivedMotorCommands ==
    {i \in ArriveIdx : CommandTopic(log[i].bytes) \in {MOTOR_ROTATE, MOTOR_HOME, MOTOR_CALIBRATE}}

\* the number of bytes that reached the port during the step up to event i
RECURSIVE BytesArrived(_)
BytesArrived(i) ==
    IF i = 0 THEN 0
    ELSE (IF log[i].e = "arrive" THEN Len(log[i].bytes) ELSE 0) + BytesArrived(i - 1)

\* the n-th byte read in the step
NthRead(n) == CHOOSE i \in ReadIdx : Cardinality({j \in ReadIdx : j <= i}) = n

\* the read of the last byte of the line that arrived at event i: the port
\* hands out the bytes in the order they reached it
ServedAt(i) == NthRead(Len(last.out) + BytesArrived(i))

\* the end of the rotation during which event i happened
IdleAfter(i) ==
    CHOOSE j \in i + 1 .. Len(log) :
        /\ log[j] = SendEvent(publish(MOTOR_STATUS, IDLE).out)
        /\ \A k \in i + 1 .. j - 1 : log[k] # log[j]

\* C24: a motor/rotate, motor/home or motor/calibrate command that arrives
\* while a rotation is in progress is answered with "Motor busy" on
\* motor/error before the rotation ends, and is not executed afterwards.
MotorBusyRejected ==
    \A i \in ArrivedMotorCommands :
        LET t == ServedAt(i)
        IN  /\ t < IdleAfter(i)
            /\ t + 2 <= Len(log)
            /\ log[t + 1].e = "call"
            /\ log[t + 2] = SendEvent(publish(MOTOR_ERROR, ERR_MOTOR_BUSY).out)

\* ------------------------------------------------------------ invalid commands

\* fan/speed, heater/power: an empty payload, one with a byte that no
\* integer has, or one without a digit
IsInvalidLevel(p) ==
    \/ p = <<>>
    \/ \E i \in 1 .. Len(p) : ~IsDigit(p[i]) /\ p[i] \notin {"-", "+", " "}
    \/ \A i \in 1 .. Len(p) : ~IsDigit(p[i])

\* motor/rotate: signed decimal revolutions
IsSignedDecimal(p) ==
    LET first == IF p # <<>> /\ p[1] \in {"-", "+"} THEN 2 ELSE 1
        rest == first .. Len(p)
    IN  /\ \E i \in rest : IsDigit(p[i])
        /\ \A i \in rest : IsDigit(p[i]) \/ p[i] = "."
        /\ \A i, j \in rest : p[i] = "." /\ p[j] = "." => i = j

\* motor/config: name:<lo..hi>, the value in digits
IsConfigOf(p, name, lo, hi) ==
    LET n == Len(name)
        digits == Skip(p, n + 1)
        r == StrtolDigits(digits, 0, FALSE)
    IN  /\ Len(p) > n + 1
        /\ SubSeq(p, 1, n + 1) = name \o <<COLON>>
        /\ \A i \in 1 .. Len(digits) : IsDigit(digits[i])
        /\ ~r.over /\ r.value >= lo /\ r.value <= hi

\* motor/config: steps:<1..10000> or delay:<100..100000>
IsValidConfig(p) == IsConfigOf(p, STEPS, 1, 10000) \/ IsConfigOf(p, DELAY, 100, 100000)

\* the call c carries an invalid payload
IsInvalidCommand(c) ==
    CASE c.callback = "fan.speedCallback" -> IsInvalidLevel(c.payload)
      [] c.callback = "heater.powerCallback" -> IsInvalidLevel(c.payload)
      [] c.callback = "motor.messageCallback" -> ~IsSignedDecimal(c.payload)
      [] c.callback = "motor.configCallback" -> ~IsValidConfig(c.payload)
      [] OTHER -> FALSE

\* the error topic of the component of the call c
ErrorTopicOf(c) ==
    CASE c.callback = "fan.speedCallback" -> FAN_ERROR
      [] c.callback = "heater.powerCallback" -> HEATER_ERROR
      [] OTHER -> MOTOR_ERROR

InvalidCalls == {i \in 1 .. Len(log) : log[i].e = "call" /\ IsInvalidCommand(log[i])}

\* ev is a publish on topic
IsPublishOn(ev, topic) ==
    /\ ev.e = "send"
    /\ Len(ev.bytes) > Len(topic)
    /\ SubSeq(ev.bytes, 1, Len(topic) + 1) = topic \o <<COLON>>

\* every call with an invalid payload publishes one error and writes to no
\* actuator
InvalidCallsReported ==
    \A i \in InvalidCalls :
        LET eff == Effects(i)
        IN  /\ Cardinality({k \in 1 .. Len(eff) : IsPublishOn(eff[k], ErrorTopicOf(log[i]))}) = 1
            /\ \A k \in 1 .. Len(eff) : eff[k].e \notin {"write", "pulses"}

\* the state after the calls of the sequence without those with an invalid
\* payload
RECURSIVE ReplayValid(_, _)
ReplayValid(h, calls) ==
    IF calls = <<>> THEN h
    ELSE LET c == Head(calls)
         IN  ReplayValid(IF IsInvalidCommand(c) THEN h
                         ELSE InvokeCallback(c.callback, h, c.topic, c.payload),
                         Tail(calls))

\* C25: a fan/speed, heater/power, motor/rotate or motor/config command with
\* an empty, non-numeric, malformed or out of range payload publishes exactly
\* one message on the error topic of its component and changes nothing: the
\* fan, the heater and the motor are as if the command had not been sent, and
\* no actuator output is written.
InvalidCommandRejected ==
    [][/\ InvalidCallsReported'
       /\ LET h == ReplayValid(Handlers(<<>>), Calls(log'))
          IN  fan' = h.fan /\ heater' = h.heater /\ motor' = h.motor]_vars

\* ------------------------------------------------------------ failures and the next line

\* the terminator of the first line with bytes after the terminator at
\* index i, or 0
NextLine(i) ==
    LET later == {j \in TermIdx : j > i /\ LineAt(j) # <<>>}
    IN  IF later = {} THEN 0 ELSE CHOOSE j \in later : \A k \in later : j <= k

\* a measurement or a calibration among the events failed
OperationFailed(evs) ==
    \E k \in 1 .. Len(evs) :
        /\ evs[k].e = "return"
        /\ \/ evs[k].op = "measure" /\ ~evs[k].result.isValid
           \/ evs[k].op \in {"calibrateDry", "calibrateWet"} /\ evs[k].result = FALSE

\* a handler among the events was called with an invalid payload
InvalidPayload(evs) ==
    \E k \in 1 .. Len(evs) :
        /\ evs[k].e = "call"
        /\ \/ IsInvalidCommand(evs[k])
           \/ evs[k].callback = "calibrateCallback" /\ evs[k].payload \notin {DRY, WET}

\* the line the terminator at index i ends is malformed, oversized, carries
\* an invalid payload or starts a measurement or a calibration that fails
IsFailedLine(i) ==
    /\ LineAt(i) # <<>>
    /\ \/ Malformed(LineAt(i))
       \/ ~Fits(LineAt(i))
       \/ InvalidPayload(Effects(i))
       \/ OperationFailed(Effects(i))

\* the line the terminator at index i ends is dispatched to the handlers of
\* its topic
IsDispatched(i) ==
    Calls(Effects(i)) = ExpectedCalls(subscriptions, LineTopic(LineAt(i)), LinePayload(LineAt(i)))

\* C26: after a line that is malformed, oversized, carries an invalid
\* payload or starts a measurement or a calibration that fails, the next
\* well-formed line for a subscribed topic is dispatched to its handler.
NothingIsFatal ==
    \A i \in TermIdx :
        LET n == NextLine(i)
        IN  (/\ IsFailedLine(i)
             /\ n # 0
             /\ WellFormed(LineAt(n))
             /\ Fits(LineAt(n))
             /\ IsSubscribed(subscriptions, LineTopic(LineAt(n))))
                => IsDispatched(n)

\* the line after the failed line at index i reached a handler
Survived(i) ==
    /\ IsFailedLine(i)
    /\ NextLine(i) # 0
    /\ Calls(Effects(NextLine(i))) # <<>>
    /\ IsDispatched(NextLine(i))

\* one transmission with a failure of each kind, each followed by a line
\* that is dispatched
EveryFailureSurvivedWitness ==
    /\ \E i \in TermIdx : Malformed(LineAt(i)) /\ Fits(LineAt(i)) /\ Survived(i)
    /\ \E i \in TermIdx : ~Fits(LineAt(i)) /\ Survived(i)
    /\ \E i \in TermIdx : InvalidPayload(Effects(i)) /\ Survived(i)
    /\ \E i \in TermIdx : OperationFailed(Effects(i)) /\ Survived(i)

\* ------------------------------------------------------------ motor configuration

\* name:digits with a value outside lo..hi
IsOutOfRangeOf(p, name, lo, hi) ==
    LET n == Len(name)
        digits == Skip(p, n + 1)
        r == StrtolDigits(digits, 0, FALSE)
    IN  /\ Len(p) > n + 1
        /\ SubSeq(p, 1, n + 1) = name \o <<COLON>>
        /\ \A i \in 1 .. Len(digits) : IsDigit(digits[i])
        /\ (r.over \/ r.value < lo \/ r.value > hi)

\* a motor/config payload with a value outside the range of its parameter
IsOutOfRangeConfig(p) ==
    IsOutOfRangeOf(p, STEPS, 1, 10000) \/ IsOutOfRangeOf(p, DELAY, 100, 100000)

OutOfRangeCalls ==
    {i \in 1 .. Len(log) : /\ log[i].e = "call"
                           /\ log[i].callback = "motor.configCallback"
                           /\ IsOutOfRangeConfig(log[i].payload)}

\* steps per revolution and step delay are within their ranges
ConfigInRange ==
    /\ motor.stepsPerRevolution \in 1 .. 10000
    /\ motor.stepDelayMicros \in 100 .. 100000

\* every call with a value out of range publishes an error and no new
\* configuration
OutOfRangeReported ==
    \A i \in OutOfRangeCalls :
        LET eff == Effects(i)
        IN  /\ \E k \in 1 .. Len(eff) : IsPublishOn(eff[k], MOTOR_ERROR)
            /\ \A k \in 1 .. Len(eff) : ~IsPublishOn(eff[k], MOTOR_CONFIG_STATUS)

\* the calls of the step are motor/config calls with a value out of range
OnlyOutOfRangeCalls ==
    /\ OutOfRangeCalls # {}
    /\ \A i \in 1 .. Len(log) : log[i].e = "call" => i \in OutOfRangeCalls

\* C31: steps per revolution is in 1..10000 and the step delay in
\* 100..100000 in every state, 200 and 1000 before any command; a
\* motor/config value outside the range is answered with an error and
\* changes nothing of the motor.
MotorConfigWithinRange ==
    [][/\ ConfigInRange /\ ConfigInRange'
       /\ (events = 0 => /\ motor.stepsPerRevolution = DEFAULT_STEPS_PER_REVOLUTION
                         /\ motor.stepDelayMicros = DEFAULT_STEP_DELAY_MICROS)
       /\ OutOfRangeReported'
       /\ (OnlyOutOfRangeCalls' => motor' = motor)]_vars

\* ------------------------------------------------------------ replies to moisture/measure

MeasureCalls ==
    {i \in 1 .. Len(log) : log[i].e = "call" /\ log[i].callback = "measureCallback"}

\* the number of publishes on topic among the events
PublishCount(evs, topic) == Cardinality({k \in 1 .. Len(evs) : IsPublishOn(evs[k], topic)})

\* measure() returned a valid result among the events
MeasureValid(evs) ==
    \E k \in 1 .. Len(evs) :
        evs[k].e = "return" /\ evs[k].op = "measure" /\ evs[k].result.isValid

\* C32: every dispatched moisture/measure command is answered: moisture/data
\* is published once when measure() returned a valid result and not at all
\* otherwise, and without moisture/data there is at least one publish on
\* moisture/error.
MeasureCommandAnswered ==
    \A i \in MeasureCalls :
        LET eff == Effects(i)
            data == PublishCount(eff, MOISTURE_DATA)
        IN  /\ data = (IF MeasureValid(eff) THEN 1 ELSE 0)
            /\ (data = 0 => PublishCount(eff, MOISTURE_ERROR) >= 1)

\* a measurement command answered with an error only
MeasureErrorReplyWitness ==
    \E i \in MeasureCalls :
        /\ ~MeasureValid(Effects(i))
        /\ PublishCount(Effects(i), MOISTURE_DATA) = 0
        /\ PublishCount(Effects(i), MOISTURE_ERROR) >= 1
        /\ \E k \in 1 .. Len(Effects(i)) : Effects(i)[k].e = "sensor"

\* ------------------------------------------------------------ published IR LED status

\* the publishes on irled/status among the events
StatusIdx(evs) == {k \in 1 .. Len(evs) : IsPublishOn(evs[k], IRLED_STATUS)}

\* the last value published on irled/status among the events is that of state
LastStatusIs(evs, state) ==
    LET k == CHOOSE j \in StatusIdx(evs) : \A m \in StatusIdx(evs) : m <= j
    IN  evs[k] = SendEvent(publish(IRLED_STATUS, IF state THEN ON ELSE OFF).out)

\* the step left the LED as the last irled/status it published says
StatusPublishedCurrent == StatusIdx(log) # {} /\ LastStatusIs(log, irledState)

\* C33: the value published last on irled/status is the state of the LED pin
\* and the recorded LED state: a step that publishes on irled/status leaves
\* the LED as its last publish says, a step that publishes nothing there
\* leaves the LED as it was, and the LED is off, as begin() published, before
\* the first operation.
LedStatusNeverStale ==
    [][/\ irledPin' = irledState'
       /\ (events = 0 => ~irledState /\ ~irledPin)
       /\ IF StatusIdx(log') # {}
          THEN StatusPublishedCurrent'
          ELSE irledState' = irledState /\ irledPin' = irledPin]_vars

\* a measurement or a calibration has switched the LED on and off again and
\* the last publish says off
LedCycleReportedWitness ==
    /\ StatusPublishedCurrent
    /\ ~irledState /\ ~irledPin
    /\ \E k \in StatusIdx(log) : log[k] = SendEvent(publish(IRLED_STATUS, ON).out)
    /\ \E k \in 1 .. Len(log) : log[k].e = "sensor"

\* ------------------------------------------------------------ registration at start

\* the (topic, handler) pairs a component registers
RegistrationsOf(component) ==
    {BeginSubscriptions[i] : i \in
        CASE component = "moisture" -> 1 .. 5
          [] component = "fan" -> 6 .. 7
          [] component = "heater" -> 8 .. 9
          [] component = "dht" -> {10}
          [] component = "motor" -> 11 .. 15}

\* the registrations of the moisture component that need the sensor
SensorRegistrations == {BeginSubscriptions[i] : i \in 3 .. 5}

\* the AS7341 was not found when the moisture component started
SensorMissing ==
    \E i \in 1 .. Len(log) : log[i] = SendEvent(publish(MOISTURE_STATUS, SENSOR_ERROR).out)

\* the (topic, handler) pairs the table holds
Registered == {<<subscriptions[s].topic, subscriptions[s].callback>> :
                   s \in {x \in Slots : subscriptions[x].active}}

\* what the components started so far have to register
ExpectedRegistrations ==
    UNION {RegistrationsOf(c) : c \in Begun}
        \ (IF SensorMissing THEN SensorRegistrations ELSE {})

\* C34: whatever the order in which the components are started, every
\* subscribe call returns true and the table holds exactly the topics of the
\* components started, each with its handler and in a slot of its own: 15
\* topics in the 16 slots when all five are started; when the AS7341 is not
\* found the moisture component registers irled/control and irled/get only.
EveryBeginSubscribes ==
    /\ \A i \in 1 .. Len(log) : log[i].e = "subscribe" => log[i].ret
    /\ Registered = ExpectedRegistrations
    /\ Cardinality({s \in Slots : subscriptions[s].active}) = Cardinality(ExpectedRegistrations)
    /\ Cardinality(ExpectedRegistrations) <= MAX_SUBSCRIPTIONS
    /\ (Begun = Components /\ ~SensorMissing => Cardinality(Registered) = 15)
    /\ (SensorMissing => /\ Registered \cap SensorRegistrations = {}
                         /\ RegistrationsOf("moisture") \ SensorRegistrations \subseteq Registered)

\* the five components started, the moisture component last
AllBegunWitness ==
    /\ Begun = Components
    /\ ~SensorMissing
    /\ Cardinality({s \in Slots : subscriptions[s].active}) = 15
    /\ subscriptions[14].topic = MOISTURE_CONFIG

\* ------------------------------------------------------------ buffer bounds

Larger(a, b) == IF a > b THEN a ELSE b

\* the largest value bufferIndex takes while loop() reads the bytes, from
\* the buffer buf (over a sequence: the largest of its first half and of its
\* second half, read from the buffer the first half leaves)
RECURSIVE MaxBufferIndex(_, _)
MaxBufferIndex(buf, bytes) ==
    IF Len(bytes) <= 1
    THEN Larger(Len(buf), Len(loop(subscriptions, buf, Handlers(<<>>), bytes).buf))
    ELSE Larger(MaxBufferIndex(buf, SubSeq(bytes, 1, Len(bytes) \div 2)),
                MaxBufferIndex(
                    loop(subscriptions, buf, Handlers(<<>>),
                         SubSeq(bytes, 1, Len(bytes) \div 2)).buf,
                    SubSeq(bytes, Len(bytes) \div 2 + 1, Len(bytes))))

\* C35: bufferIndex is in 0..63 after every byte of every inbound stream, so
\* every byte stored and the NUL written at bufferIndex are inside the 64
\* bytes of the receive buffer; every topic parseMessage hands on has 1 to 23
\* characters and fits its 24 bytes with the NUL.
BufferIndexInBounds ==
    /\ Len(receiveBuffer) \in 0 .. MAX_MESSAGE_LENGTH - 1
    /\ MaxBufferIndex(last.buf0, ReadBytes(log)) \in 0 .. MAX_MESSAGE_LENGTH - 1
    /\ \A i \in 1 .. Len(log) :
           log[i].e = "call" => Len(log[i].topic) \in 1 .. MAX_TOPIC_LENGTH - 1

\* a line longer than the buffer has been read: the index reached 63 and the
\* buffer was emptied
BufferOverflowWitness ==
    /\ Len(ReadBytes(log)) >= MAX_MESSAGE_LENGTH
    /\ NoLineEnd(SubSeq(ReadBytes(log), 1, MAX_MESSAGE_LENGTH))
    /\ MaxBufferIndex(last.buf0, ReadBytes(log)) = MAX_MESSAGE_LENGTH - 1
    /\ Len(receiveBuffer) < MAX_MESSAGE_LENGTH - 1

====
